---- MODULE Spec2Model ----
(***************************************************************************)
(* Model of the LLM unification layer of forecastingresearch/utils:        *)
(*   - utils/llm/utils.py           retry engine, JSON extraction/parsing  *)
(*   - utils/llm/providers/*.py     provider hooks wrapped by the engine   *)
(*   - utils/llm/model_registry.py  API-key store and provider cache       *)
(* Text is modelled as a sequence of one-character strings, positions are  *)
(* 0-based as in the Python source.                                        *)
(***************************************************************************)
EXTENDS Integers, Sequences, FiniteSets, TLC

VARIABLES
    \* ---- one call through the retry engine ----
    pc,         \* Idle / Calling / Backoff / Done / Failed
    call,       \* the call in progress: target, hook, options, wait_time
    attempts,   \* number of times api_call() was invoked
    requests,   \* number of vendor requests issued
    sleeps,     \* durations passed to time.sleep, in order
    history,    \* per attempt: vendor response seen and api_call outcome
    result,     \* what the call handed to its caller
    \* ---- text-to-JSON recovery ----
    ex_text,    \* raw text handed to extract_json_from_text
    ex_json,    \* the JSON value the raw text was built around
    ex_pc,      \* "input" / "extracted" / "parsed"
    ex_out,     \* candidate returned by extract_json_from_text
    ex_steps,   \* json_text after each stage of extract_json_from_text
    ex_parsed,  \* outcome of parse_and_validate_json on the candidate
    flat,       \* a vendor content value and what _flatten_content made of it
    \* ---- model registry ----
    keys,       \* _PROVIDER_API_KEYS: variant -> key, None when absent
    cache,      \* lru_cache of _get_provider_instance: variant -> instance
    next_id,    \* identity of the next provider instance constructed
    cfg,        \* the thread inside configure_api_keys
    lk,         \* the thread inside _get_provider_instance
    seen,       \* observations: how the last calls ended, what they returned
    validation, \* the validate_provider_keys call that has ended: models, outcome
    built       \* providers constructed directly: arguments and result, in order

callVars == <<pc, call, attempts, requests, sleeps, history, result>>
exVars == <<ex_text, ex_json, ex_pc, ex_out, ex_steps, ex_parsed, flat>>
auxVars == <<validation, built>>
regVars == <<keys, cache, next_id, cfg, lk, seen, auxVars>>
vars == <<callVars, exVars, regVars>>

None == "None"
\* an optional numeric keyword argument: absent, or supplied with a value
Absent == <<>>
Supplied(x) == <<x>>

\* no content value is being flattened
NoFlat == [pc |-> "off", content |-> <<"null">>, out |-> [ok |-> TRUE, text |-> <<>>]]

\* no provider instance
NoInstance == [cls |-> None, api_key |-> None, id |-> 0]

---------------------------------------------------------------------------
(* Python str helpers used by utils.py                                     *)

Whitespace == {" ", "\n"}

Min(S) == CHOOSE x \in S : \A y \in S : x <= y
Max(S) == CHOOSE x \in S : \A y \in S : x >= y

\* s[a:] and s[a:b] with 0-based positions
SliceFrom(s, a) == SubSeq(s, a + 1, Len(s))
Slice(s, a, b) == SubSeq(s, a + 1, b)

RECURSIVE lstrip(_)
lstrip(s) ==
    IF s # <<>> /\ Head(s) \in Whitespace THEN lstrip(Tail(s)) ELSE s

RECURSIVE rstripChars(_, _)
rstripChars(s, cs) ==
    IF s # <<>> /\ s[Len(s)] \in cs
    THEN rstripChars(SubSeq(s, 1, Len(s) - 1), cs)
    ELSE s

rstrip(s) == rstripChars(s, Whitespace)
strip(s) == rstrip(lstrip(s))

startswith(s, p) == Len(s) >= Len(p) /\ SubSeq(s, 1, Len(p)) = p
endswith(s, p) == Len(s) >= Len(p) /\ SubSeq(s, Len(s) - Len(p) + 1, Len(s)) = p

Occurrences(s, sub, start) ==
    {i \in start..(Len(s) - Len(sub)) : SubSeq(s, i + 1, i + Len(sub)) = sub}

\* str.find(sub, start) and str.rfind(sub): -1 when absent
find(s, sub, start) ==
    IF Occurrences(s, sub, start) = {} THEN -1 ELSE Min(Occurrences(s, sub, start))
rfind(s, sub) ==
    IF Occurrences(s, sub, 0) = {} THEN -1 ELSE Max(Occurrences(s, sub, 0))
contains(s, sub) == Occurrences(s, sub, 0) # {}

OPEN_TAG == <<"<", "t", "h", "i", "n", "k", ">">>
CLOSE_TAG == <<"<", "/", "t", "h", "i", "n", "k", ">">>
\* the backquote character (a string literal of the language cannot hold it)
BACKQUOTE == "bq"
FENCE == <<BACKQUOTE, BACKQUOTE, BACKQUOTE>>
FENCE_JSON == FENCE \o <<"j", "s", "o", "n">>

---------------------------------------------------------------------------
(* extract_json_from_text, utils.py:76-173, one operator per stage         *)

\* mutant: the close tag alone is enough to discard what precedes it
StripReasoning_CloseOnly(text) ==
    LET json_text == strip(text)
        reasoning_end == find(json_text, CLOSE_TAG, 0)
    IN  IF reasoning_end # -1
        THEN strip(SliceFrom(json_text, reasoning_end + Len(CLOSE_TAG)))
        ELSE json_text

\* utils.py:89-100  reasoning tags
StripReasoning(text) ==
    LET json_text == strip(text)
        reasoning_end == find(json_text, CLOSE_TAG, 0)
    IN  IF contains(json_text, OPEN_TAG) /\ reasoning_end # -1
        THEN strip(SliceFrom(json_text, reasoning_end + Len(CLOSE_TAG)))
        ELSE json_text

\* utils.py:106-116  leading free text: cut at the later of last "{" / last "["
LastJsonStart(json_text) ==
    LET last_brace == rfind(json_text, <<"{">>)
        last_bracket == rfind(json_text, <<"[">>)
    IN  IF startswith(strip(json_text), <<"{">>) \/ startswith(strip(json_text), <<"[">>)
        THEN json_text
        ELSE IF last_brace # -1 \/ last_bracket # -1
             THEN strip(SliceFrom(json_text, Max({last_brace, last_bracket} \ {-1})))
             ELSE json_text

\* utils.py:119-130  markdown code blocks
FencedBlock(json_text) ==
    IF contains(json_text, FENCE_JSON)
    THEN LET start == find(json_text, FENCE_JSON, 0) + 7
             end == find(json_text, FENCE, start)
         IN  IF end # -1 THEN strip(Slice(json_text, start, end)) ELSE json_text
    ELSE IF contains(json_text, FENCE)
    THEN LET start == find(json_text, FENCE, 0) + 3
             end == find(json_text, FENCE, start)
         IN  IF end # -1 THEN strip(Slice(json_text, start, end)) ELSE json_text
    ELSE json_text

\* utils.py:136-137  while json_text.endswith(FENCE)
RECURSIVE DropTrailingFences(_)
DropTrailingFences(json_text) ==
    IF endswith(json_text, FENCE)
    THEN DropTrailingFences(rstrip(SubSeq(json_text, 1, Len(json_text) - 3)))
    ELSE json_text

\* utils.py:133-137
TrailingMarkdown(json_text) ==
    DropTrailingFences(strip(rstripChars(json_text, {BACKQUOTE})))

\* utils.py:151-168  the depth scan; returns json_end (-1 when never balanced)
RECURSIVE ScanEnd(_, _, _, _)
ScanEnd(json_text, i, brace_count, bracket_count) ==
    IF i >= Len(json_text) THEN -1
    ELSE LET char == json_text[i + 1] IN
         IF char = "{" THEN ScanEnd(json_text, i + 1, brace_count + 1, bracket_count)
         ELSE IF char = "}"
              THEN IF brace_count - 1 = 0 /\ bracket_count = 0
                   THEN i + 1
                   ELSE ScanEnd(json_text, i + 1, brace_count - 1, bracket_count)
         ELSE IF char = "[" THEN ScanEnd(json_text, i + 1, brace_count, bracket_count + 1)
         ELSE IF char = "]"
              THEN IF brace_count = 0 /\ bracket_count - 1 = 0
                   THEN i + 1
                   ELSE ScanEnd(json_text, i + 1, brace_count, bracket_count - 1)
         ELSE ScanEnd(json_text, i + 1, brace_count, bracket_count)

\* utils.py:141-171
JsonBoundaries(json_text) ==
    LET starts == {find(json_text, <<"{">>, 0), find(json_text, <<"[">>, 0)} \ {-1}
    IN  IF starts = {} THEN json_text
        ELSE LET from == SliceFrom(json_text, Min(starts))
                 json_end == ScanEnd(from, 0, 0, 0)
             IN  IF json_end # -1 THEN strip(Slice(from, 0, json_end)) ELSE from

extract_json_from_text(text) ==
    JsonBoundaries(TrailingMarkdown(FencedBlock(LastJsonStart(StripReasoning(text)))))

\* the value of json_text after each stage of extract_json_from_text(text)
NoSteps == [reasoning |-> <<>>, leading |-> <<>>, fenced |-> <<>>, trailing |-> <<>>]
ExtractSteps(text) ==
    LET reasoning == StripReasoning(text)
        leading == LastJsonStart(reasoning)
        fenced == FencedBlock(leading)
    IN  [reasoning |-> reasoning, leading |-> leading, fenced |-> fenced,
         trailing |-> TrailingMarkdown(fenced)]

---------------------------------------------------------------------------
(* json.loads (utils.py:195) on the JSON subset the model's texts can      *)
(* spell: objects, arrays, double-quoted strings, unsigned integers.       *)
(* Parsed values are tagged: <<"num", n>>, <<"str", chars>>,               *)
(* <<"arr", <<v1, ..>>>>, <<"obj", [key -> value]>>.                       *)

Digits == {"1", "2"}
DigitValue(c) == IF c = "1" THEN 1 ELSE 2
QUOTE == "\""

ParseFail == [ok |-> FALSE, val |-> <<>>, pos |-> 0]
ParseOk(v, p) == [ok |-> TRUE, val |-> v, pos |-> p]
CharAt(s, i) == IF i < Len(s) THEN s[i + 1] ELSE "EOF"

RECURSIVE SkipWhitespace(_, _)
SkipWhitespace(s, i) ==
    IF i < Len(s) /\ s[i + 1] \in Whitespace THEN SkipWhitespace(s, i + 1) ELSE i

RECURSIVE ParseNumber(_, _, _)
ParseNumber(s, i, acc) ==
    IF CharAt(s, i) \in Digits
    THEN ParseNumber(s, i + 1, 10 * acc + DigitValue(s[i + 1]))
    ELSE ParseOk(<<"num", acc>>, i)

\* s[i] is the opening quote; a raw newline inside a string is rejected
ParseString(s, i) ==
    LET close == find(s, <<QUOTE>>, i + 1)
    IN  IF close = -1 \/ contains(Slice(s, i + 1, close), <<"\n">>)
        THEN ParseFail
        ELSE ParseOk(<<"str", Slice(s, i + 1, close)>>, close + 1)

RECURSIVE ParseValue(_, _)
RECURSIVE ParseMembers(_, _, _)
RECURSIVE ParseElements(_, _, _)

\* i is at the first character of a value
ParseValue(s, i) ==
    LET c == CharAt(s, i) IN
    IF c = "{"
    THEN LET j == SkipWhitespace(s, i + 1)
         IN  IF CharAt(s, j) = "}" THEN ParseOk(<<"obj", <<>>>>, j + 1)
             ELSE ParseMembers(s, j, <<>>)
    ELSE IF c = "["
    THEN LET j == SkipWhitespace(s, i + 1)
         IN  IF CharAt(s, j) = "]" THEN ParseOk(<<"arr", <<>>>>, j + 1)
             ELSE ParseElements(s, j, <<>>)
    ELSE IF c = QUOTE THEN ParseString(s, i)
    ELSE IF c \in Digits THEN ParseNumber(s, i, 0)
    ELSE ParseFail

\* i is where a member's key must start; a later duplicate key wins
ParseMembers(s, i, acc) ==
    IF CharAt(s, i) # QUOTE THEN ParseFail
    ELSE LET k == ParseString(s, i) IN
         IF ~k.ok THEN ParseFail
         ELSE LET colon == SkipWhitespace(s, k.pos) IN
              IF CharAt(s, colon) # ":" THEN ParseFail
              ELSE LET v == ParseValue(s, SkipWhitespace(s, colon + 1)) IN
                   IF ~v.ok THEN ParseFail
                   ELSE LET next == SkipWhitespace(s, v.pos)
                            members == (k.val[2] :> v.val) @@ acc
                        IN  IF CharAt(s, next) = "}"
                            THEN ParseOk(<<"obj", members>>, next + 1)
                            ELSE IF CharAt(s, next) = ","
                            THEN ParseMembers(s, SkipWhitespace(s, next + 1), members)
                            ELSE ParseFail

\* i is where an element must start
ParseElements(s, i, acc) ==
    LET v == ParseValue(s, i) IN
    IF ~v.ok THEN ParseFail
    ELSE LET next == SkipWhitespace(s, v.pos)
             elements == Append(acc, v.val)
         IN  IF CharAt(s, next) = "]"
             THEN ParseOk(<<"arr", elements>>, next + 1)
             ELSE IF CharAt(s, next) = ","
             THEN ParseElements(s, SkipWhitespace(s, next + 1), elements)
             ELSE ParseFail

\* json.loads: one value, nothing but whitespace around it
json_loads(s) ==
    LET v == ParseValue(s, SkipWhitespace(s, 0))
    IN  IF v.ok /\ SkipWhitespace(s, v.pos) = Len(s) THEN v ELSE ParseFail

---------------------------------------------------------------------------
(* Outcomes of an operation: a returned value or a raised exception.       *)
(* An exception carries its class and its message as a sequence of         *)
(* message fragments; str(exc) is the concatenation of the fragments.      *)

Returned(v) == [kind |-> "return", val |-> v, cls |-> None, msg |-> <<>>]
Raised(cls, msg) == [kind |-> "raise", val |-> None, cls |-> cls, msg |-> msg]

\* utils.py:15-18: only NonRetryableError and its subclasses are Permanent
IsNonRetryableError(outcome) ==
    outcome.kind = "raise" /\ outcome.cls = "NonRetryableError"

\* the response schema of the structured calls: one required field a: int
\* (pydantic lax mode also accepts a string of digits for an int field)
IsIntLike(v) ==
    \/ v[1] = "num"
    \/ v[1] = "str" /\ v[2] # <<>> /\ \A i \in 1..Len(v[2]) : v[2][i] \in Digits

RECURSIVE DigitsValue(_, _)
DigitsValue(chars, acc) ==
    IF chars = <<>> THEN acc
    ELSE DigitsValue(Tail(chars), 10 * acc + DigitValue(Head(chars)))
IntOf(v) == IF v[1] = "num" THEN v[2] ELSE DigitsValue(v[2], 0)

model_validate(json_data) ==
    /\ json_data[1] = "obj"
    /\ <<"a">> \in DOMAIN json_data[2]
    /\ IsIntLike(json_data[2][<<"a">>])

EXCERPT_LEN == 200
Excerpt(s) == SubSeq(s, 1, IF Len(s) < EXCERPT_LEN THEN Len(s) ELSE EXCERPT_LEN)

\* mutant: parse and validation failures raised as plain ValueError
parse_and_validate_json_ValueError(json_text, response_text) ==
    LET json_data == json_loads(json_text) IN
    IF ~json_data.ok
    THEN Raised("ValueError", <<"Failed to parse JSON from response">>)
    ELSE IF model_validate(json_data.val)
    THEN Returned(<<"model", IntOf(json_data.val[2][<<"a">>])>>)
    ELSE Raised("ValueError", <<"response did not match expected schema">>)

\* utils.py:176-210
parse_and_validate_json(json_text, response_text) ==
    LET json_data == json_loads(json_text) IN
    IF ~json_data.ok
    THEN Raised("NonRetryableError",
                <<"Failed to parse JSON from response", "Response text:">>
                    \o (IF response_text # <<>> THEN Excerpt(response_text)
                        ELSE Excerpt(json_text)))
    ELSE IF model_validate(json_data.val)
    THEN Returned(<<"model", IntOf(json_data.val[2][<<"a">>])>>)
    ELSE Raised("NonRetryableError",
                <<"response did not match expected schema", "Response data:">>)

---------------------------------------------------------------------------
(* Texts handed to the recovery: leading free text followed by the         *)
(* rendering of one JSON object or array.                                  *)

MaxDepth == 2

Scalars == {<<"num", 1>>, <<"str", <<"b">>>>}

RECURSIVE JsonValues(_)
JsonValues(d) ==
    IF d = 0 THEN Scalars \cup {<<"arr", <<>>>>, <<"obj", <<>>>>}
    ELSE JsonValues(0)
         \cup {<<"arr", <<v>>>> : v \in JsonValues(d - 1)}
         \cup {<<"arr", <<v, <<"num", 2>>>>>> : v \in JsonValues(d - 1)}
         \cup {<<"obj", (<<"a">> :> v)>> : v \in JsonValues(d - 1)}

JsonDocuments == {v \in JsonValues(MaxDepth) : v[1] \in {"arr", "obj"}}

RECURSIVE Render(_)
RECURSIVE RenderElements(_)
RenderElements(vs) ==
    IF vs = <<>> THEN <<>>
    ELSE IF Len(vs) = 1 THEN Render(vs[1])
    ELSE Render(vs[1]) \o <<",", " ">> \o RenderElements(Tail(vs))
Render(v) ==
    IF v[1] = "num" THEN <<IF v[2] = 1 THEN "1" ELSE "2">>
    ELSE IF v[1] = "str" THEN <<QUOTE>> \o v[2] \o <<QUOTE>>
    ELSE IF v[1] = "arr" THEN <<"[">> \o RenderElements(v[2]) \o <<"]">>
    ELSE IF DOMAIN v[2] = {} THEN <<"{", "}">>
    ELSE <<"{", QUOTE, "a", QUOTE, ":", " ">> \o Render(v[2][<<"a">>]) \o <<"}">>

LeadingTexts == {<<>>, <<"a", " ">>, <<"a", ":", "\n">>}

InitExtract ==
    /\ ex_json \in JsonDocuments
    /\ \E lead \in LeadingTexts : ex_text = lead \o Render(ex_json)
    /\ ex_pc = "input"
    /\ ex_out = <<>>
    /\ ex_steps = NoSteps
    /\ ex_parsed = None
    /\ flat = NoFlat

\* Texts made of one JSON object or array followed by trailing commentary;
\* the strings inside the JSON may hold bracket characters.
BracketChars == {"{", "}", "[", "]"}
BracketDocuments ==
    {<<"obj", (<<"a">> :> <<"str", <<c>>>>)>> : c \in BracketChars}
    \cup {<<"arr", << <<"str", <<c>>>> >> >> : c \in BracketChars}
TrailingDocuments == JsonDocuments \cup BracketDocuments
TrailingTexts == {<<>>, <<" ", "o", "k">>, <<"\n", "a", "}">>, <<" ", "[", "x">>}

InitTrailing ==
    /\ ex_json \in TrailingDocuments
    /\ \E trail \in TrailingTexts : ex_text = Render(ex_json) \o trail
    /\ ex_pc = "input"
    /\ ex_out = <<>>
    /\ ex_steps = NoSteps
    /\ ex_parsed = None
    /\ flat = NoFlat

\* Texts with reasoning markup: something, then possibly the close tag, then
\* possibly an open tag or a line break, then one JSON object or array.
ReasoningDocuments == {v \in JsonValues(1) : v[1] \in {"arr", "obj"}}
BeforeClose == {<<>>, <<"r">>, OPEN_TAG \o <<"r">>, <<"{", "}">>}
CloseTags == {<<>>, CLOSE_TAG}
AfterClose == {<<>>, OPEN_TAG, <<"\n">>}

InitReasoning ==
    /\ ex_json \in ReasoningDocuments
    /\ \E before \in BeforeClose, close \in CloseTags, after \in AfterClose :
          ex_text = before \o close \o after \o Render(ex_json)
    /\ ex_pc = "input"
    /\ ex_out = <<>>
    /\ ex_steps = NoSteps
    /\ ex_parsed = None
    /\ flat = NoFlat

\* Texts with fenced code blocks: optional prose, a fenced block around one
\* JSON document, optionally a second fenced block around another document.
\* ex_json is the document of the first block tagged json when there is one,
\* otherwise the document of the first block.
FencedDocuments == {v \in JsonValues(1) : v[1] \in {"arr", "obj"}}
SecondDocument == <<"obj", (<<"a">> :> <<"num", 2>>)>>
FenceTags == {FENCE_JSON, FENCE}
Prose == {<<>>, <<"a", ":", "\n">>}
Block(tag, v) == tag \o <<"\n">> \o Render(v) \o <<"\n">> \o FENCE

InitFenced ==
    /\ ex_pc = "input"
    /\ ex_out = <<>>
    /\ ex_steps = NoSteps
    /\ ex_parsed = None
    /\ flat = NoFlat
    /\ \E prose \in Prose, first \in FencedDocuments, tag1 \in FenceTags :
          \/ /\ ex_text = prose \o Block(tag1, first)
             /\ ex_json = first
          \/ \E tag2 \in FenceTags :
                /\ ex_text = prose \o Block(tag1, first) \o <<"\n">>
                                  \o Block(tag2, SecondDocument)
                /\ ex_json = IF tag1 = FENCE /\ tag2 = FENCE_JSON
                             THEN SecondDocument ELSE first

\* the structured hooks hand the vendor text to extract_json_from_text ...
ExtractJson ==
    /\ ex_pc = "input"
    /\ ex_out' = extract_json_from_text(ex_text)
    /\ ex_steps' = ExtractSteps(ex_text)
    /\ ex_pc' = "extracted"
    /\ UNCHANGED <<ex_text, ex_json, ex_parsed, flat>>

\* ... and the candidate to parse_and_validate_json
ParseAndValidate ==
    /\ ex_pc = "extracted"
    /\ ex_parsed' = [data |-> json_loads(ex_out),
                     outcome |-> parse_and_validate_json(ex_out, ex_text)]
    /\ ex_pc' = "parsed"
    /\ UNCHANGED <<ex_text, ex_json, ex_out, ex_steps, flat>>

---------------------------------------------------------------------------
(* Provider hooks (providers/openai.py, providers/anthropic.py) and the    *)
(* retry engine (utils.py:21-56).                                          *)

MaxAttempts == 3

REPETITIVE_MARKER == "repetitive patterns"
SENTINEL == "need_a_new_reformat_prompt"
DEFAULT_WAIT_TIME_SECONDS == 30

NoResult == [kind |-> "none", val |-> None, cls |-> None, msg |-> <<>>]
\* openai.py:41 and :92  options.get("temperature", 0.8)
OPENAI_DEFAULT_TEMPERATURE == "0.8"

\* a call: the variant and hook it goes to, the model's reasoning flag, the
\* options the hook is handed (temperature, max_tokens and whatever is left
\* under "wait_time"), the wait handed to the retry engine, for the record
\* the wait_time the caller passed and the instance's default wait, and the
\* provider instance the call was made on when the registry resolved it
NoCall == [target |-> None, hook |-> None, reasoning_model |-> FALSE,
           temperature |-> Absent, max_tokens |-> Absent,
           options_wait_time |-> Absent, wait_time |-> 0,
           wait_time_option |-> Absent, default_wait_time |-> 0,
           inst |-> NoInstance]

\* mutant: each attempt resolves the provider again, from the cache of the
\* moment or, when it is empty, from the key in the store
api_call_self_Relookup(c, cache_now, keys_now) ==
    IF c.inst = NoInstance THEN NoInstance
    ELSE IF cache_now[c.target] # NoInstance THEN cache_now[c.target]
    ELSE [cls |-> c.target, api_key |-> keys_now[c.target], id |-> c.inst.id + 1]

\* base.py:31-32: api_call closes over self, the instance get_response was
\* called on; the cache and the key store are not read again
api_call_self(c, cache_now, keys_now) == c.inst
\* the keyword arguments of one vendor request; Absent is a key that is not there
NoPayload == [sent |-> FALSE, temperature |-> Absent, max_tokens |-> Absent]
RequestPayload(temperature, max_tokens) ==
    [sent |-> TRUE, temperature |-> temperature, max_tokens |-> max_tokens]
NoVendor == [kind |-> "none", msg |-> <<>>, status |-> None,
             incomplete_details |-> None, output_text |-> <<>>,
             content |-> None, parts |-> <<>>]

\* str(exc) of the failures an operation or a vendor client raises
FailureMessages == {<<"rate limit exceeded">>,
                    <<"prompt rejected:", REPETITIVE_MARKER, "detected">>}

\* what an arbitrary zero-argument operation can do on one attempt
OperationOutcomes ==
    {Returned(v) : v \in {"v1", "v2"}}
    \cup {Raised(cls, msg) : cls \in {"NonRetryableError", "ConnectionError"},
                             msg \in FailureMessages}

\* texts a vendor can answer with
VendorTexts == {
    <<"{", QUOTE, "a", QUOTE, ":", " ", "1", "}">>,
    <<"a", " ", "{", QUOTE, "a", QUOTE, ":", "2", "}", "\n">>,
    <<"{", QUOTE, "a", QUOTE, ":", QUOTE, "b", QUOTE, "}">>,
    <<"[", "1", "]">>,
    <<"{", QUOTE, "a", QUOTE, ":">>,
    <<"a", " ", "b">> }

VendorError(msg) ==
    [kind |-> "error", msg |-> msg, status |-> None,
     incomplete_details |-> None, output_text |-> <<>>,
     content |-> None, parts |-> <<>>]
VendorResponse(status, reason, text) ==
    [kind |-> "response", msg |-> <<>>, status |-> status,
     incomplete_details |-> reason, output_text |-> text,
     content |-> None, parts |-> <<>>]
\* a chat completion: response.choices[0].message.content is null, a string
\* (output_text) or a list of text parts (parts)
VendorMessage(content, text, parts) ==
    [kind |-> "message", msg |-> <<>>, status |-> None,
     incomplete_details |-> None, output_text |-> text,
     content |-> content, parts |-> parts]

ChatTargets == {"together", "mistral", "xai"}
MessageTexts == {<<>>, <<" ">>, <<"o", "k">>, <<" ", "o", "k", "\n">>}
MessageParts == {<<>>, << <<>> >>, << <<"o">>, <<"k">> >>}
VendorMessages ==
    {VendorMessage("null", <<>>, <<>>)}
    \cup {VendorMessage("str", text, <<>>) : text \in MessageTexts}
    \cup {VendorMessage("list", <<>>, parts) : parts \in MessageParts}

\* what the vendor client can do with one request
VendorOutcomes(target) ==
    {VendorError(msg) : msg \in FailureMessages}
    \cup (IF target \in ChatTargets THEN VendorMessages
          ELSE {VendorResponse("completed", None, text) : text \in VendorTexts})
    \cup (IF target = "openai"
          THEN {VendorResponse(st, reason, <<>>) :
                   st \in {"incomplete", "failed"},
                   reason \in {None, "max_output_tokens"}}
          ELSE {})

\* an exception of the vendor client propagates out of the hook unchanged
VendorRaised(vendor) == Raised("APIError", vendor.msg)

\* openai.py:63-70
OpenAIStatusError(vendor) ==
    Raised("RuntimeError",
           <<"OpenAI response incomplete (status=", vendor.status, ")">>
               \o (IF vendor.incomplete_details # None
                   THEN <<", reason=", vendor.incomplete_details>> ELSE <<>>))

\* mutant: the reasoning flag is ignored when the payload is built
OpenAI_request_payload_AlwaysTemperature(c) ==
    RequestPayload(IF c.temperature = Absent
                   THEN Supplied(OPENAI_DEFAULT_TEMPERATURE) ELSE c.temperature,
                   c.max_tokens)

\* openai.py:41-59 and :92-114: temperature (the caller's, or 0.8) unless the
\* model is a reasoning model; max_output_tokens when max_tokens is given
OpenAI_request_payload(c) ==
    RequestPayload(IF c.reasoning_model THEN Absent
                   ELSE IF c.temperature = Absent
                   THEN Supplied(OPENAI_DEFAULT_TEMPERATURE) ELSE c.temperature,
                   c.max_tokens)

\* mutant: the status of the response is not looked at
OpenAI_call_model_IgnoresStatus(c, vendor) ==
    IF vendor.kind = "error"
    THEN [outcome |-> VendorRaised(vendor), requests |-> 1,
          payload |-> OpenAI_request_payload(c)]
    ELSE [outcome |-> Returned(strip(vendor.output_text)), requests |-> 1,
          payload |-> OpenAI_request_payload(c)]

\* openai.py:40-77
OpenAI_call_model(c, vendor) ==
    IF vendor.kind = "error"
    THEN [outcome |-> VendorRaised(vendor), requests |-> 1,
          payload |-> OpenAI_request_payload(c)]
    ELSE IF vendor.status # "completed"
    THEN [outcome |-> OpenAIStatusError(vendor), requests |-> 1,
          payload |-> OpenAI_request_payload(c)]
    ELSE [outcome |-> Returned(strip(vendor.output_text)), requests |-> 1,
          payload |-> OpenAI_request_payload(c)]

\* openai.py:79-135
OpenAI_call_model_structured(c, vendor) ==
    IF vendor.kind = "error"
    THEN [outcome |-> VendorRaised(vendor), requests |-> 1,
          payload |-> OpenAI_request_payload(c)]
    ELSE IF vendor.status # "completed"
    THEN [outcome |-> OpenAIStatusError(vendor), requests |-> 1,
          payload |-> OpenAI_request_payload(c)]
    ELSE LET output_text == strip(vendor.output_text)
             json_text == extract_json_from_text(output_text)
         IN  [outcome |-> parse_and_validate_json(json_text, output_text),
              requests |-> 1, payload |-> OpenAI_request_payload(c)]

\* anthropic.py:46 and :82
AnthropicMaxTokensAssertion ==
    Raised("AssertionError", <<"max_tokens is required for Anthropic models.">>)

\* anthropic.py:49-60 and :89-100
Anthropic_call_args(c) == RequestPayload(c.temperature, c.max_tokens)

\* anthropic.py:43-65
Anthropic_call_model(c, vendor) ==
    IF c.max_tokens = Absent
    THEN [outcome |-> AnthropicMaxTokensAssertion, requests |-> 0,
          payload |-> NoPayload]
    ELSE IF vendor.kind = "error"
    THEN [outcome |-> VendorRaised(vendor), requests |-> 1,
          payload |-> Anthropic_call_args(c)]
    ELSE [outcome |-> Returned(vendor.output_text), requests |-> 1,
          payload |-> Anthropic_call_args(c)]

\* anthropic.py:67-110
Anthropic_call_model_structured(c, vendor) ==
    IF c.max_tokens = Absent
    THEN [outcome |-> AnthropicMaxTokensAssertion, requests |-> 0,
          payload |-> NoPayload]
    ELSE IF vendor.kind = "error"
    THEN [outcome |-> VendorRaised(vendor), requests |-> 1,
          payload |-> Anthropic_call_args(c)]
    ELSE LET response_text == vendor.output_text
             json_text == extract_json_from_text(response_text)
         IN  [outcome |-> parse_and_validate_json(json_text, response_text),
              requests |-> 1, payload |-> Anthropic_call_args(c)]

\* "".join(parts)
RECURSIVE Join(_)
Join(parts) == IF parts = <<>> THEN <<>> ELSE Head(parts) \o Join(Tail(parts))

\* together.py:22-42 on a string or a list of strings
flatten_content(vendor) ==
    IF vendor.content = "null" THEN <<>>
    ELSE IF vendor.content = "str" THEN vendor.output_text
    ELSE Join(vendor.parts)

\* Content values, together.py:22: <<"null">>, <<"str", chars>>,
\* <<"bytes", bytes>> (each byte a two-digit hexadecimal string),
\* <<"list", sequence of content values>>, <<"dict", function from keys to
\* content values>>.  _flatten_content returns a text or raises.
Null == <<"null">>
Str(chars) == <<"str", chars>>
Bytes(bytes) == <<"bytes", bytes>>
List(items) == <<"list", items>>
Dict(d) == <<"dict", d>>
Flat(text) == [ok |-> TRUE, text |-> text]
FlatRaised == [ok |-> FALSE, text |-> <<>>]

\* bytes.decode("utf-8") on the bytes 68 (h), 69 (i) and the two-byte
\* character C3 A9 (e with an acute accent); any other sequence is refused
RECURSIVE decode_utf8(_)
decode_utf8(bytes) ==
    IF bytes = <<>> THEN Flat(<<>>)
    ELSE IF Head(bytes) \in {"68", "69"}
    THEN LET rest == decode_utf8(Tail(bytes)) IN
         IF rest.ok
         THEN Flat(<<IF Head(bytes) = "68" THEN "h" ELSE "i">> \o rest.text)
         ELSE FlatRaised
    ELSE IF Head(bytes) = "C3" /\ Len(bytes) >= 2 /\ bytes[2] = "A9"
    THEN LET rest == decode_utf8(Tail(Tail(bytes))) IN
         IF rest.ok THEN Flat(<<"e-acute">> \o rest.text) ELSE FlatRaised
    ELSE FlatRaised

\* str(content) of a value that is not a string: its Python rendering, one
\* opaque piece of text
PyStr(content) == << <<"str()", content>> >>

\* together.py:38  for key in ["content", "message", "output"]
OTHER_KEYS == <<"content", "message", "output">>

RECURSIVE _flatten_content(_)

\* "".join(parts) over the flattened items, in order; an item that raises
\* ends the comprehension
RECURSIVE JoinFlattened(_)
JoinFlattened(items) ==
    IF items = <<>> THEN Flat(<<>>)
    ELSE LET first == _flatten_content(Head(items)) IN
         IF ~first.ok THEN FlatRaised
         ELSE LET rest == JoinFlattened(Tail(items)) IN
              IF rest.ok THEN Flat(first.text \o rest.text) ELSE FlatRaised

\* mutant: the parts are joined last to first
RECURSIVE JoinReversed(_)
JoinReversed(items) ==
    IF items = <<>> THEN Flat(<<>>)
    ELSE LET first == _flatten_content(Head(items)) IN
         IF ~first.ok THEN FlatRaised
         ELSE LET rest == JoinReversed(Tail(items)) IN
              IF rest.ok THEN Flat(rest.text \o first.text) ELSE FlatRaised

\* mutant: _flatten_content with the parts of a sequence joined last to first
_flatten_content_Reversed(content) ==
    IF content[1] = "null" THEN Flat(<<>>)
    ELSE IF content[1] = "str" THEN Flat(content[2])
    ELSE IF content[1] = "bytes" THEN decode_utf8(content[2])
    ELSE IF content[1] = "list" THEN JoinReversed(content[2])
    ELSE LET d == content[2]
             others == {i \in 1..Len(OTHER_KEYS) : OTHER_KEYS[i] \in DOMAIN d}
         IN  IF "text" \in DOMAIN d /\ d["text"] # Null
             THEN _flatten_content(d["text"])
             ELSE IF others # {}
             THEN _flatten_content(d[OTHER_KEYS[Min(others)]])
             ELSE Flat(PyStr(content))

\* together.py:22-42
_flatten_content(content) ==
    IF content[1] = "null" THEN Flat(<<>>)
    ELSE IF content[1] = "str" THEN Flat(content[2])
    ELSE IF content[1] = "bytes" THEN decode_utf8(content[2])
    ELSE IF content[1] = "list" THEN JoinFlattened(content[2])
    ELSE LET d == content[2]
             others == {i \in 1..Len(OTHER_KEYS) : OTHER_KEYS[i] \in DOMAIN d}
         IN  IF "text" \in DOMAIN d /\ d["text"] # Null
             THEN _flatten_content(d["text"])
             ELSE IF others # {}
             THEN _flatten_content(d[OTHER_KEYS[Min(others)]])
             ELSE Flat(PyStr(content))

\* the content values tried: leaves, then sequences and records over them
MaxNest == 2
ContentLeaves ==
    {Null, Str(<<>>), Str(<<"H", "i", ",", " ">>), Str(<<"w">>),
     Bytes(<<"68", "69">>), Bytes(<<"C3", "A9">>), Bytes(<<"C3">>)}
RECURSIVE Contents(_)
Contents(n) ==
    IF n = 0 THEN ContentLeaves
    ELSE LET inner == Contents(n - 1) IN
         inner
         \cup {List(<<>>)}
         \cup {List(<<x>>) : x \in inner}
         \cup {List(<<x, y>>) : x \in inner, y \in ContentLeaves}
         \cup {Dict([type |-> Str(<<"t">>)])}
         \cup {Dict([type |-> Str(<<"t">>), text |-> x]) : x \in inner}
         \cup {Dict([text |-> Null, content |-> x]) : x \in ContentLeaves}
         \cup {Dict([output |-> x, message |-> Str(<<"m">>)]) : x \in ContentLeaves}

InitFlatten ==
    /\ ex_text = <<>>
    /\ ex_json = None
    /\ ex_pc = "off"
    /\ ex_out = <<>>
    /\ ex_steps = NoSteps
    /\ ex_parsed = None
    /\ \E content \in Contents(MaxNest) :
          flat = [pc |-> "content", content |-> content, out |-> Flat(<<>>)]

\* _flatten_content(message_content), together.py:93
FlattenContent ==
    /\ flat.pc = "content"
    /\ flat' = [flat EXCEPT !.pc = "flattened", !.out = _flatten_content(flat.content)]
    /\ UNCHANGED <<ex_text, ex_json, ex_pc, ex_out, ex_steps, ex_parsed>>

\* together.py:73-82
Together_request_payload(c) == RequestPayload(c.temperature, c.max_tokens)

\* together.py:68-102
Together_call_model(c, vendor) ==
    IF vendor.kind = "error"
    THEN [outcome |-> VendorRaised(vendor), requests |-> 1,
          payload |-> Together_request_payload(c)]
    ELSE IF vendor.content = "null"
    THEN [outcome |-> Raised("NonRetryableError",
                             <<"Together API returned None for message content.">>),
          requests |-> 1, payload |-> Together_request_payload(c)]
    ELSE LET response_text == strip(flatten_content(vendor)) IN
         IF response_text = <<>>
         THEN [outcome |-> Raised("NonRetryableError",
                                  <<"Together API returned empty response.">>),
               requests |-> 1, payload |-> Together_request_payload(c)]
         ELSE [outcome |-> Returned(response_text), requests |-> 1,
               payload |-> Together_request_payload(c)]

\* together.py:104-151
Together_call_model_structured(c, vendor) ==
    IF vendor.kind = "error"
    THEN [outcome |-> VendorRaised(vendor), requests |-> 1,
          payload |-> Together_request_payload(c)]
    ELSE IF vendor.content = "null"
    THEN [outcome |-> Raised("NonRetryableError",
                             <<"Together API returned None for message content.">>),
          requests |-> 1, payload |-> Together_request_payload(c)]
    ELSE LET response_text == strip(flatten_content(vendor)) IN
         IF response_text = <<>>
         THEN [outcome |-> Raised("NonRetryableError",
                                  <<"Together API returned empty response.">>),
               requests |-> 1, payload |-> Together_request_payload(c)]
         ELSE [outcome |-> parse_and_validate_json(
                               extract_json_from_text(response_text), response_text),
               requests |-> 1, payload |-> Together_request_payload(c)]

\* mistral.py:49-56 and :101-108
Mistral_request_payload(c) == RequestPayload(c.temperature, c.max_tokens)

\* mistral.py:40-79
Mistral_call_model(c, vendor) ==
    IF vendor.kind = "error"
    THEN [outcome |-> VendorRaised(vendor), requests |-> 1,
          payload |-> Mistral_request_payload(c)]
    ELSE IF vendor.content = "null"
    THEN [outcome |-> Returned(<<>>), requests |-> 1,
          payload |-> Mistral_request_payload(c)]
    ELSE IF vendor.content = "str"
    THEN [outcome |-> Returned(vendor.output_text), requests |-> 1,
          payload |-> Mistral_request_payload(c)]
    ELSE [outcome |-> Returned(Join(vendor.parts)), requests |-> 1,
          payload |-> Mistral_request_payload(c)]

\* mistral.py:81-176 on null, a string or a list of strings
Mistral_call_model_structured(c, vendor) ==
    IF vendor.kind = "error"
    THEN [outcome |-> VendorRaised(vendor), requests |-> 1,
          payload |-> Mistral_request_payload(c)]
    ELSE LET content == IF vendor.content = "null" THEN <<>>
                        ELSE IF vendor.content = "str" THEN vendor.output_text
                        ELSE Join(vendor.parts)
             response_text == strip(content)
         IN  [outcome |-> parse_and_validate_json(
                              extract_json_from_text(response_text), response_text),
              requests |-> 1, payload |-> Mistral_request_payload(c)]

\* xai.py:46-58
XAI_request_payload(c) == RequestPayload(c.temperature, c.max_tokens)

\* xai.py:41-62: the content is returned as the vendor gave it
XAI_call_model(c, vendor) ==
    IF vendor.kind = "error"
    THEN [outcome |-> VendorRaised(vendor), requests |-> 1,
          payload |-> XAI_request_payload(c)]
    ELSE IF vendor.content = "null"
    THEN [outcome |-> Returned(None), requests |-> 1,
          payload |-> XAI_request_payload(c)]
    ELSE IF vendor.content = "str"
    THEN [outcome |-> Returned(vendor.output_text), requests |-> 1,
          payload |-> XAI_request_payload(c)]
    ELSE [outcome |-> Returned(<<"list", vendor.parts>>), requests |-> 1,
          payload |-> XAI_request_payload(c)]

\* google.py:40-50: the generation config gets the temperature when one is
\* given; max_tokens is not read
Google_config_kwargs(c) == RequestPayload(c.temperature, Absent)

\* google.py:39-57: response.text is returned as the client gave it
Google_call_model(c, vendor) ==
    IF vendor.kind = "error"
    THEN [outcome |-> VendorRaised(vendor), requests |-> 1,
          payload |-> Google_config_kwargs(c)]
    ELSE [outcome |-> Returned(vendor.output_text), requests |-> 1,
          payload |-> Google_config_kwargs(c)]

\* the hooks each provider class defines; base.py:64-89 declares both abstract
HooksImplemented(provider_cls) ==
    IF provider_cls \in {"xai", "google"} THEN {"plain"}
    ELSE {"plain", "structured"}

\* base.py:31-32 and :59-60: the closure handed to the retry engine
api_call(c, vendor) ==
    IF c.target = "openai"
    THEN IF c.hook = "plain" THEN OpenAI_call_model(c, vendor)
         ELSE OpenAI_call_model_structured(c, vendor)
    ELSE IF c.target = "anthropic"
    THEN IF c.hook = "plain" THEN Anthropic_call_model(c, vendor)
         ELSE Anthropic_call_model_structured(c, vendor)
    ELSE IF c.target = "together"
    THEN IF c.hook = "plain" THEN Together_call_model(c, vendor)
         ELSE Together_call_model_structured(c, vendor)
    ELSE IF c.target = "mistral"
    THEN IF c.hook = "plain" THEN Mistral_call_model(c, vendor)
         ELSE Mistral_call_model_structured(c, vendor)
    ELSE IF c.target = "google" THEN Google_call_model(c, vendor)
    ELSE XAI_call_model(c, vendor)

\* utils.py:47  "repetitive patterns" in str(exc)
HasRepetitiveMarker(outcome) ==
    \E i \in 1..Len(outcome.msg) : outcome.msg[i] = REPETITIVE_MARKER

\* mutant: the engine without its "except NonRetryableError: raise" clause
get_response_with_retry_NoPermanent(outcome) ==
    IF outcome.kind = "return"
    THEN [pc |-> "Done", result |-> outcome]
    ELSE IF HasRepetitiveMarker(outcome)
    THEN [pc |-> "Done", result |-> Returned(SENTINEL)]
    ELSE [pc |-> "Backoff", result |-> NoResult]

\* mutant: the engine gives up on the first transient failure and re-raises it
get_response_with_retry_GivesUp(outcome) ==
    IF outcome.kind = "return"
    THEN [pc |-> "Done", result |-> outcome]
    ELSE IF IsNonRetryableError(outcome)
    THEN [pc |-> "Failed", result |-> outcome]
    ELSE IF HasRepetitiveMarker(outcome)
    THEN [pc |-> "Done", result |-> Returned(SENTINEL)]
    ELSE [pc |-> "Failed", result |-> outcome]

\* mutant: the marker is looked for before the class of the failure
get_response_with_retry_MarkerFirst(outcome) ==
    IF outcome.kind = "return"
    THEN [pc |-> "Done", result |-> outcome]
    ELSE IF HasRepetitiveMarker(outcome)
    THEN [pc |-> "Done", result |-> Returned(SENTINEL)]
    ELSE IF IsNonRetryableError(outcome)
    THEN [pc |-> "Failed", result |-> outcome]
    ELSE [pc |-> "Backoff", result |-> NoResult]

\* mutant: the engine without its repetitive-output short-circuit
get_response_with_retry_NoSentinel(outcome) ==
    IF outcome.kind = "return"
    THEN [pc |-> "Done", result |-> outcome]
    ELSE IF IsNonRetryableError(outcome)
    THEN [pc |-> "Failed", result |-> outcome]
    ELSE [pc |-> "Backoff", result |-> NoResult]

\* utils.py:40-56: one pass of the while-loop on the outcome of api_call()
get_response_with_retry(outcome) ==
    IF outcome.kind = "return"
    THEN [pc |-> "Done", result |-> outcome]
    ELSE IF IsNonRetryableError(outcome)
    THEN [pc |-> "Failed", result |-> outcome]
    ELSE IF HasRepetitiveMarker(outcome)
    THEN [pc |-> "Done", result |-> Returned(SENTINEL)]
    ELSE [pc |-> "Backoff", result |-> NoResult]

\* mutant: the engine sleeps the provider default whatever wait_time it was given
BackoffSeconds_Default(c) == DEFAULT_WAIT_TIME_SECONDS

\* utils.py:56  time.sleep(wait_time)
BackoffSeconds(c) == c.wait_time

\* base.py:23-25  self._default_wait_time = default_wait_time or 30
\* (Absent stands for None, the parameter's default)
BaseLLMProvider_init(default_wait_time) ==
    IF default_wait_time = Absent THEN DEFAULT_WAIT_TIME_SECONDS
    ELSE IF default_wait_time[1] = 0 THEN DEFAULT_WAIT_TIME_SECONDS
    ELSE default_wait_time[1]

\* mutant: the option is read with get() and stays in the options
PopWaitTime_Get(wait_time_option, default_wait_time) ==
    [wait_time |-> IF wait_time_option = Absent THEN default_wait_time
                   ELSE wait_time_option[1],
     options_wait_time |-> wait_time_option]

\* base.py:29 and :57  options.pop("wait_time", self._default_wait_time): the
\* value handed to the retry engine and what is left in the options
PopWaitTime(wait_time_option, default_wait_time) ==
    [wait_time |-> IF wait_time_option = Absent THEN default_wait_time
                   ELSE wait_time_option[1],
     options_wait_time |-> Absent]

\* the provider classes that can be instantiated: every abstract hook is defined
ConcreteProviders ==
    {provider_cls \in {"openai", "anthropic", "google", "xai", "together", "mistral"} :
        HooksImplemented(provider_cls) = {"plain", "structured"}}

\* constructor arguments and call options tried
DefaultWaitTimes == {Absent, Supplied(0), Supplied(5)}
Temperatures == {Absent, Supplied("0")}
MaxTokens == {Absent, Supplied(100)}
WaitTimes == {Absent, Supplied(0), Supplied(1)}

\* base.py:29-32 and :57-60: the call the retry engine is handed by an instance
\* whose default wait is default_wait_time
ProviderCall(target, hook, reasoning_model, temperature, max_tokens, wait_time_option, default_wait_time) ==
    LET popped == PopWaitTime(wait_time_option, default_wait_time) IN
    [target |-> target, hook |-> hook, reasoning_model |-> reasoning_model,
     temperature |-> temperature, max_tokens |-> max_tokens,
     options_wait_time |-> popped.options_wait_time,
     wait_time |-> popped.wait_time,
     wait_time_option |-> wait_time_option,
     default_wait_time |-> default_wait_time,
     inst |-> NoInstance]

\* get_response_with_retry called directly on an operation with wait w
OperationCall(kind, w) ==
    [NoCall EXCEPT !.target = kind, !.hook = "plain", !.wait_time = w]

InitCall ==
    /\ pc = "Idle"
    /\ call = NoCall
    /\ attempts = 0
    /\ requests = 0
    /\ sleeps = <<>>
    /\ history = <<>>
    /\ result = NoResult

\* get_response_with_retry(api_call, wait_time, error_msg) on any operation
InvokeOperation ==
    /\ pc = "Idle"
    /\ \E w \in {0, 5} : call' = OperationCall("operation", w)
    /\ pc' = "Calling"
    /\ UNCHANGED <<attempts, requests, sleeps, history, result, exVars, regVars>>

\* BaseLLMProvider.get_response, base.py:27-34
GetResponse ==
    /\ pc = "Idle"
    /\ \E target \in ConcreteProviders, reasoning_model \in BOOLEAN,
          temperature \in Temperatures, max_tokens \in MaxTokens,
          wait_time_option \in WaitTimes, default_wait_time \in DefaultWaitTimes :
          call' = ProviderCall(target, "plain", reasoning_model, temperature,
                               max_tokens, wait_time_option,
                               BaseLLMProvider_init(default_wait_time))
    /\ pc' = "Calling"
    /\ UNCHANGED <<attempts, requests, sleeps, history, result, exVars, regVars>>

\* BaseLLMProvider.get_structured_response, base.py:36-62
GetStructuredResponse ==
    /\ pc = "Idle"
    /\ \E target \in {"openai", "anthropic"}, reasoning_model \in BOOLEAN,
          temperature \in Temperatures, max_tokens \in MaxTokens,
          wait_time_option \in WaitTimes, default_wait_time \in DefaultWaitTimes :
          call' = ProviderCall(target, "structured", reasoning_model, temperature,
                               max_tokens, wait_time_option,
                               BaseLLMProvider_init(default_wait_time))
    /\ pc' = "Calling"
    /\ UNCHANGED <<attempts, requests, sleeps, history, result, exVars, regVars>>

\* the engine's reaction to one attempt, utils.py:41-54
Attempted(vendor, r) ==
    /\ attempts' = attempts + 1
    /\ requests' = requests + r.requests
    /\ history' = Append(history, [vendor |-> vendor, outcome |-> r.outcome,
                                   requests |-> r.requests, payload |-> r.payload,
                                   inst |-> api_call_self(call, cache, keys)])
    /\ pc' = get_response_with_retry(r.outcome).pc
    /\ result' = get_response_with_retry(r.outcome).result
    /\ UNCHANGED <<call, sleeps, exVars, regVars>>

\* one attempt of an arbitrary operation
AttemptOperation ==
    /\ pc = "Calling"
    /\ call.target = "operation"
    /\ attempts < MaxAttempts
    /\ \E outcome \in OperationOutcomes :
          Attempted(NoVendor, [outcome |-> outcome, requests |-> 0,
                               payload |-> NoPayload])

\* one attempt of a provider hook
AttemptProvider ==
    /\ pc = "Calling"
    /\ call.target # "operation"
    /\ attempts < MaxAttempts
    /\ \E vendor \in VendorOutcomes(call.target) :
          LET r == api_call(call, vendor)
          IN  Attempted(IF r.requests = 0 THEN NoVendor ELSE vendor, r)

\* utils.py:53-56: log, sleep, go round the loop
Sleep ==
    /\ pc = "Backoff"
    /\ sleeps' = Append(sleeps, BackoffSeconds(call))
    /\ pc' = "Calling"
    /\ UNCHANGED <<call, attempts, requests, history, result, exVars, regVars>>

\* The while-loop of utils.py:40-56 with no bound on the attempts.  To keep
\* the state finite only the latest attempt and the latest sleep are kept,
\* and attempts stops counting at MaxAttempts ("MaxAttempts or more").
\* The operation called is of one of three kinds.
OperationKinds == {"operation", "failing_operation", "transient_operation"}

\* what an operation of each kind can do on one attempt: anything; a failure
\* that is not Permanent; a failure that is not Permanent and has no marker
OutcomesOf(kind) ==
    IF kind = "operation" THEN OperationOutcomes
    ELSE IF kind = "failing_operation"
    THEN {o \in OperationOutcomes : o.kind = "raise" /\ ~IsNonRetryableError(o)}
    ELSE {o \in OperationOutcomes :
             o.kind = "raise" /\ ~IsNonRetryableError(o) /\ ~HasRepetitiveMarker(o)}

\* the operation returns a value or raises a Permanent failure
FinalOutcome(o) == o.kind = "return" \/ IsNonRetryableError(o)

InvokeForever ==
    /\ pc = "Idle"
    /\ \E kind \in OperationKinds, w \in {0, 1, 5, DEFAULT_WAIT_TIME_SECONDS} :
          call' = OperationCall(kind, w)
    /\ pc' = "Calling"
    /\ UNCHANGED <<attempts, requests, sleeps, history, result, exVars, regVars>>

\* utils.py:41-54 on the outcome of one more api_call()
AttemptedForever(outcome) ==
    /\ attempts' = IF attempts < MaxAttempts THEN attempts + 1 ELSE attempts
    /\ history' = <<[vendor |-> NoVendor, outcome |-> outcome, requests |-> 0,
                     payload |-> NoPayload,
                     inst |-> api_call_self(call, cache, keys)]>>
    /\ pc' = get_response_with_retry(outcome).pc
    /\ result' = get_response_with_retry(outcome).result
    /\ UNCHANGED <<call, requests, sleeps, exVars, regVars>>

\* api_call() returns a value or raises a Permanent failure
AttemptFinal ==
    /\ pc = "Calling"
    /\ \E outcome \in OutcomesOf(call.target) :
          FinalOutcome(outcome) /\ AttemptedForever(outcome)

\* api_call() raises any other failure
AttemptFailed ==
    /\ pc = "Calling"
    /\ \E outcome \in OutcomesOf(call.target) :
          ~FinalOutcome(outcome) /\ AttemptedForever(outcome)

\* utils.py:53-56
SleepForever ==
    /\ pc = "Backoff"
    /\ sleeps' = <<BackoffSeconds(call)>>
    /\ pc' = "Calling"
    /\ UNCHANGED <<call, attempts, requests, history, result, exVars, regVars>>

---------------------------------------------------------------------------
(* Model registry, model_registry.py:27-149.  configure_api_keys and       *)
(* _get_provider_instance run on two threads; every step below is one      *)
(* access to the shared key store or instance cache.                       *)

NumVariants == 2
MaxInstances == 3

\* model_registry.py:41-48 and :135-142: both loops visit the variants in this order
VariantOrder == <<"openai", "anthropic", "google", "xai", "together", "mistral">>
Variants == {VariantOrder[i] : i \in 1..NumVariants}

ExplicitKeys == {"A", "B"}
\* what the secret store holds for every variant
GcpKey == "G"
\* get_secret: the secret, a RuntimeError (secret_manager.py:20), or another
\* exception (secret_manager.py:38, or one raised by the client library)
FetchOutcomes == {GcpKey, "RuntimeError", "TypeError"}

\* inside configure_api_keys: where the call is, the store as the call found
\* it (kept while the fetch loop runs), what get_secret did per variant and
\* the keyword argument read for each variant so far
NoKeys == [v \in Variants |-> None]
NoFetch == [v \in Variants |-> "none"]
CfgIdle == [pc |-> "idle", i |-> 0, before |-> NoKeys, fetched |-> NoFetch,
            passed |-> NoKeys]
LkIdle == [pc |-> "idle", variant |-> None, api_key |-> None, inst |-> NoInstance]

NoSeen == [cfg |-> "none",           \* last configure call: returned / raised
           op |-> "none",            \* last call that ended
           variant |-> None,         \* variant of the last lookup
           inst |-> NoInstance,      \* instance the last lookup returned
           stamp |-> 0,              \* next_id when configure last returned
           explicit |-> [v \in Variants |-> None],  \* last explicit key passed
           latest |-> [v \in Variants |-> None]]    \* key of the last supply

NoValidation == [op |-> "none", models |-> <<>>,
                 outcome |-> [kind |-> "none", val |-> None, cls |-> None, msg |-> <<>>]]

RegistryInit ==
    /\ keys = [v \in Variants |-> None]
    /\ cache = [v \in Variants |-> NoInstance]
    /\ next_id = 0
    /\ cfg = CfgIdle
    /\ lk = LkIdle
    /\ seen = NoSeen
    /\ validation = NoValidation
    /\ built = <<>>

\* what a constructor call gives: an instance, or the exception it raised
Constructed(provider_cls, api_key, id) ==
    [ok |-> TRUE, error |-> None,
     inst |-> [cls |-> provider_cls, api_key |-> api_key, id |-> id]]
Refused(error) == [ok |-> FALSE, error |-> error, inst |-> NoInstance]

\* a class that leaves a hook of base.py:64-89 abstract cannot be instantiated
IsAbstract(provider_cls) == HooksImplemented(provider_cls) # {"plain", "structured"}

\* mutant: the constructors also refuse an empty key
ProviderInit_RejectsEmpty(provider_cls, api_key, id) ==
    IF IsAbstract(provider_cls) THEN Refused("TypeError")
    ELSE IF api_key = None \/ api_key = "" THEN Refused("ValueError")
    ELSE Constructed(provider_cls, api_key, id)

\* mutant: the constructors build a client whatever the key
ProviderInit_NoCheck(provider_cls, api_key, id) ==
    IF IsAbstract(provider_cls) THEN Refused("TypeError")
    ELSE Constructed(provider_cls, api_key, id)

\* mutant: every class can be instantiated
ProviderInit_AllConcrete(provider_cls, api_key, id) ==
    IF api_key = None THEN Refused("ValueError")
    ELSE Constructed(provider_cls, api_key, id)

\* provider_cls(api_key=...): a class with an abstract hook is refused by
\* ABC (TypeError) before __init__ runs; the constructors, e.g.
\* openai.py:22-38, raise "API key required" when the key is None and
\* otherwise create the vendor client with the key as given
ProviderInit(provider_cls, api_key, id) ==
    IF IsAbstract(provider_cls) THEN Refused("TypeError")
    ELSE IF api_key = None THEN Refused("ValueError")
    ELSE Constructed(provider_cls, api_key, id)

\* mutant: only the first variant's instance is evicted
cache_clear_FirstOnly(c) == [c EXCEPT ![VariantOrder[1]] = NoInstance]

\* model_registry.py:149  _get_provider_instance.cache_clear()
cache_clear(c) == [v \in Variants |-> NoInstance]

\* mutant: a fetched secret never replaces a key that is already configured
FetchStore_KeepExisting(ks, v, fetched) ==
    IF fetched \in {"RuntimeError", "TypeError"} \/ ks[v] # None THEN ks
    ELSE [ks EXCEPT ![v] = fetched]

\* model_registry.py:128-132: the effect of one pass of the fetch loop on the store
FetchStore(ks, v, fetched) ==
    IF fetched \in {"RuntimeError", "TypeError"} THEN ks
    ELSE [ks EXCEPT ![v] = fetched]

\* model_registry.py:130: only RuntimeError is swallowed
FetchPropagates(fetched) == fetched = "TypeError"

\* mutant: the keyword argument is stored whether or not it was given
ExplicitStore_StoresNone(ks, v, api_key) == [ks EXCEPT ![v] = api_key]

\* mutant: an explicit key is stored only for a variant that has no key yet
ExplicitStore_KeepExisting(ks, v, api_key) ==
    IF api_key # None /\ ks[v] = None THEN [ks EXCEPT ![v] = api_key] ELSE ks

\* model_registry.py:144-146
ExplicitStore(ks, v, api_key) ==
    IF api_key # None THEN [ks EXCEPT ![v] = api_key] ELSE ks

\* the operations class Model defines, model_registry.py:51-67
ModelMethods == {"get_response"}

\* Model.get_response, model_registry.py:67: the lookup of line 66 returned an
\* instance and the call goes on into provider.get_response(self, prompt, ...)
ModelGetResponse ==
    /\ pc = "Idle"
    /\ lk.pc = "idle"
    /\ seen.op = "lookup"
    /\ \E max_tokens \in MaxTokens :
          call' = [ProviderCall(seen.inst.cls, "plain", FALSE, Absent, max_tokens,
                                Absent, BaseLLMProvider_init(Absent))
                   EXCEPT !.inst = seen.inst]
    /\ pc' = "Calling"
    /\ UNCHANGED <<attempts, requests, sleeps, history, result, exVars, regVars>>

\* a provider class is instantiated directly, Provider(api_key=...)
MaxBuilt == 2
AllVariants == {VariantOrder[i] : i \in 1..Len(VariantOrder)}
ConstructorKeys == {None, "", "sk-test"}

ConstructProvider ==
    /\ Len(built) < MaxBuilt
    /\ \E provider_cls \in AllVariants, api_key \in ConstructorKeys :
          built' = Append(built,
                          [provider_cls |-> provider_cls, api_key |-> api_key,
                           made |-> ProviderInit(provider_cls, api_key, Len(built) + 1)])
    /\ UNCHANGED <<keys, cache, next_id, cfg, lk, seen, validation, callVars, exVars>>

\* the model catalog, model_registry.py:178-407: two models per variant
MaxModels == 3
Catalog == {[id |-> <<v, k>>, provider_cls |-> v] : v \in Variants, k \in 1..2}
ModelLists == UNION {[1..n -> Catalog] : n \in 0..MaxModels}

\* model_registry.py:164-168: one entry per model whose provider has no key
RECURSIVE MissingKeys(_, _)
MissingKeys(models, ks) ==
    IF models = <<>> THEN <<>>
    ELSE (IF ks[Head(models).provider_cls] = None
          THEN <<[provider |-> Head(models).provider_cls, model |-> Head(models).id]>>
          ELSE <<>>)
         \o MissingKeys(Tail(models), ks)

\* mutant: the check stops at the first model whose provider has no key
validate_provider_keys_FirstOnly(models, ks) ==
    LET missing_keys == MissingKeys(models, ks) IN
    IF missing_keys # <<>>
    THEN Raised("ValueError", <<Head(missing_keys)>>)
    ELSE Returned(None)

\* model_registry.py:152-175
validate_provider_keys(models, ks) ==
    LET missing_keys == MissingKeys(models, ks) IN
    IF missing_keys # <<>>
    THEN Raised("ValueError", missing_keys)
    ELSE Returned(None)

\* validate_provider_keys(models) is called and ends
ValidateProviderKeys ==
    /\ cfg.pc = "idle"
    /\ validation = NoValidation
    /\ \E models \in ModelLists :
          validation' = [op |-> "validate", models |-> models,
                         outcome |-> validate_provider_keys(models, keys)]
    /\ UNCHANGED <<keys, cache, next_id, cfg, lk, seen, built, callVars, exVars>>

\* configure_api_keys(from_gcp=...) is entered, model_registry.py:124
ConfigureCall ==
    /\ cfg.pc = "idle"
    /\ \E from_gcp \in BOOLEAN :
          cfg' = IF from_gcp
                 THEN [CfgIdle EXCEPT !.pc = "fetch", !.i = 1, !.before = keys]
                 ELSE [CfgIdle EXCEPT !.pc = "explicit", !.i = 1]
    /\ UNCHANGED <<keys, cache, next_id, lk, seen, callVars, exVars, auxVars>>

\* one pass of "for provider_cls, secret_name in ...", model_registry.py:126-132,
\* with whatever get_secret does for this variant
ConfigureFetch ==
    /\ cfg.pc = "fetch"
    /\ \E fetched \in FetchOutcomes :
          LET v == VariantOrder[cfg.i] IN
          IF FetchPropagates(fetched)
          THEN /\ cfg' = CfgIdle
               /\ seen' = [seen EXCEPT !.cfg = "raised", !.op = "configure_raised"]
               /\ UNCHANGED keys
          ELSE /\ keys' = FetchStore(keys, v, fetched)
               /\ seen' = IF fetched = GcpKey
                          THEN [seen EXCEPT !.latest[v] = fetched]
                          ELSE seen
               /\ cfg' = IF cfg.i = NumVariants
                         THEN [cfg EXCEPT !.pc = "explicit", !.i = 1,
                                          !.fetched[v] = fetched]
                         ELSE [cfg EXCEPT !.i = cfg.i + 1, !.fetched[v] = fetched]
    /\ UNCHANGED <<cache, next_id, lk, callVars, exVars, auxVars>>

\* one pass of "for provider_cls, api_key in key_mapping.values()", :144-146,
\* with the keyword argument the caller passed for this variant
ConfigureExplicit ==
    /\ cfg.pc = "explicit"
    /\ \E api_key \in ExplicitKeys \cup {None} :
          LET v == VariantOrder[cfg.i] IN
          /\ keys' = ExplicitStore(keys, v, api_key)
          /\ seen' = IF api_key # None
                     THEN [seen EXCEPT !.explicit[v] = api_key, !.latest[v] = api_key]
                     ELSE seen
          /\ cfg' = [cfg EXCEPT !.pc = IF cfg.i = NumVariants THEN "clear"
                                       ELSE "explicit",
                                  !.i = IF cfg.i = NumVariants THEN cfg.i
                                        ELSE cfg.i + 1,
                                  !.before = NoKeys,
                                  !.passed[v] = api_key]
    /\ UNCHANGED <<cache, next_id, lk, callVars, exVars, auxVars>>

\* cache_clear() and return, model_registry.py:149
ConfigureClear ==
    /\ cfg.pc = "clear"
    /\ cache' = cache_clear(cache)
    /\ cfg' = CfgIdle
    /\ seen' = [seen EXCEPT !.cfg = "returned", !.op = "configure", !.stamp = next_id]
    /\ UNCHANGED <<keys, next_id, lk, callVars, exVars, auxVars>>

\* mutant: the wrapper never finds an entry
lru_cache_hit_Never(c, v) == NoInstance

\* model_registry.py:78: the wrapper's entry for a call, keyed by the one
\* argument provider_cls; NoInstance when there is none
lru_cache_hit(c, v) == c[v]

\* _get_provider_instance(provider_cls) is called: the lru_cache wrapper
\* returns a cached instance or goes on to call the function, :79-80
LookupCall ==
    /\ lk.pc = "idle"
    /\ \E v \in Variants :
          IF lru_cache_hit(cache, v) # NoInstance
          THEN /\ seen' = [seen EXCEPT !.op = "lookup", !.variant = v,
                                       !.inst = lru_cache_hit(cache, v)]
               /\ UNCHANGED lk
          ELSE /\ next_id < MaxInstances
               /\ lk' = [LkIdle EXCEPT !.pc = "read", !.variant = v]
               /\ UNCHANGED seen
    /\ UNCHANGED <<keys, cache, next_id, cfg, callVars, exVars, auxVars>>

\* api_key = _get_api_key_for_provider(provider_cls), model_registry.py:82
LookupReadKey ==
    /\ lk.pc = "read"
    /\ lk' = [lk EXCEPT !.pc = "construct", !.api_key = keys[lk.variant]]
    /\ UNCHANGED <<keys, cache, next_id, cfg, seen, callVars, exVars, auxVars>>

\* mutant: the wrapper remembers a call that raised, as an instance with no key
lru_cache_on_raise_Remembered(c, v) ==
    [c EXCEPT ![v] = [cls |-> v, api_key |-> None, id |-> 0]]

\* model_registry.py:78: functools.lru_cache stores results only; a call that
\* raised leaves the cache as it was
lru_cache_on_raise(c, v) == c

\* provider_cls(api_key=api_key) or provider_cls(), model_registry.py:83-85
LookupConstruct ==
    /\ lk.pc = "construct"
    /\ LET made == ProviderInit(lk.variant, lk.api_key, next_id + 1)
       IN  IF made.ok
           THEN /\ lk' = [lk EXCEPT !.pc = "store", !.inst = made.inst]
                /\ next_id' = next_id + 1
                /\ UNCHANGED <<seen, cache>>
           ELSE /\ lk' = LkIdle
                /\ seen' = [seen EXCEPT !.op = "lookup_raised",
                                        !.variant = lk.variant, !.inst = NoInstance]
                /\ cache' = lru_cache_on_raise(cache, lk.variant)
                /\ UNCHANGED next_id
    /\ UNCHANGED <<keys, cfg, callVars, exVars, auxVars>>

\* the lru_cache wrapper stores the result and returns it
LookupStore ==
    /\ lk.pc = "store"
    /\ cache' = [cache EXCEPT ![lk.variant] = lk.inst]
    /\ seen' = [seen EXCEPT !.op = "lookup", !.variant = lk.variant, !.inst = lk.inst]
    /\ lk' = LkIdle
    /\ UNCHANGED <<keys, next_id, cfg, callVars, exVars, auxVars>>

\* a hook a provider class defines is entered once, with a model and the
\* options it is handed, and the vendor client answers
CallHook ==
    /\ pc = "Idle"
    /\ \E target \in AllVariants, reasoning_model \in BOOLEAN,
          temperature \in Temperatures, max_tokens \in MaxTokens :
       \E hook \in HooksImplemented(target), vendor \in VendorOutcomes(target) :
          LET c == ProviderCall(target, hook, reasoning_model, temperature,
                                max_tokens, Absent, DEFAULT_WAIT_TIME_SECONDS)
              r == api_call(c, vendor)
          IN  /\ call' = c
              /\ attempts' = 1
              /\ requests' = r.requests
              /\ history' = <<[vendor |-> IF r.requests = 0 THEN NoVendor ELSE vendor,
                               outcome |-> r.outcome, requests |-> r.requests,
                               payload |-> r.payload,
                               inst |-> api_call_self(c, cache, keys)]>>
              /\ result' = r.outcome
              /\ pc' = "Hooked"
    /\ UNCHANGED <<sleeps, exVars, regVars>>

---------------------------------------------------------------------------
(* Specifications                                                          *)

ExtractIdle ==
    /\ ex_text = <<>>
    /\ ex_json = None
    /\ ex_pc = "off"
    /\ ex_out = <<>>
    /\ ex_steps = NoSteps
    /\ ex_parsed = None
    /\ flat = NoFlat

\* the retry engine around an arbitrary operation and around the provider hooks
Init == InitCall /\ ExtractIdle /\ RegistryInit

Next ==
    \/ InvokeOperation
    \/ GetResponse
    \/ GetStructuredResponse
    \/ AttemptOperation
    \/ AttemptProvider
    \/ Sleep

Spec == Init /\ [][Next]_vars

\* the retry loop without a bound on the attempts.  Every api_call() ends and
\* every sleep ends (weak fairness); an operation that can return a value or
\* raise a Permanent failure eventually does (strong fairness).
NextForever ==
    \/ InvokeForever
    \/ AttemptFinal
    \/ AttemptFailed
    \/ SleepForever

SpecForever ==
    /\ Init
    /\ [][NextForever]_vars
    /\ WF_vars(AttemptFinal \/ AttemptFailed)
    /\ WF_vars(SleepForever)
    /\ SF_vars(AttemptFinal)

\* the text-to-JSON recovery on its own
NextExtract ==
    \/ ExtractJson /\ UNCHANGED <<callVars, regVars>>
    \/ ParseAndValidate /\ UNCHANGED <<callVars, regVars>>

InitRecovery == InitExtract /\ InitCall /\ RegistryInit

SpecExtract == InitRecovery /\ [][NextExtract]_vars

\* the recovery on a JSON document followed by trailing commentary
InitTrailingCommentary == InitTrailing /\ InitCall /\ RegistryInit

SpecTrailing == InitTrailingCommentary /\ [][NextExtract]_vars

\* the recovery on texts with reasoning markup
InitReasoningMarkup == InitReasoning /\ InitCall /\ RegistryInit

SpecReasoning == InitReasoningMarkup /\ [][NextExtract]_vars

\* the recovery on texts with fenced code blocks
InitFencedBlocks == InitFenced /\ InitCall /\ RegistryInit

SpecFenced == InitFencedBlocks /\ [][NextExtract]_vars

InitRegistry == RegistryInit /\ InitCall /\ ExtractIdle

\* the registry with both threads running freely
NextRace ==
    \/ ConfigureCall
    \/ ConfigureFetch
    \/ ConfigureExplicit
    \/ ConfigureClear
    \/ LookupCall
    \/ LookupReadKey
    \/ LookupConstruct
    \/ LookupStore

SpecRace == InitRegistry /\ [][NextRace]_vars

\* the registry used from one thread: a call starts only when no other is running
NextRegistry ==
    \/ ConfigureCall /\ lk.pc = "idle"
    \/ ConfigureFetch
    \/ ConfigureExplicit
    \/ ConfigureClear
    \/ LookupCall /\ cfg.pc = "idle"
    \/ LookupReadKey
    \/ LookupConstruct
    \/ LookupStore

SpecRegistry == InitRegistry /\ [][NextRegistry]_vars

\* Model.get_response from one thread, between configuration calls: the lookup
\* (line 66), then, when it returned an instance, the provider call (line 67)
NextModel ==
    \/ ConfigureCall /\ lk.pc = "idle" /\ pc = "Idle" /\ seen.op # "lookup"
    \/ ConfigureFetch
    \/ ConfigureExplicit
    \/ ConfigureClear
    \/ LookupCall /\ cfg.pc = "idle" /\ pc = "Idle" /\ seen.op # "lookup"
    \/ LookupReadKey
    \/ LookupConstruct
    \/ LookupStore
    \/ ModelGetResponse
    \/ AttemptProvider
    \/ Sleep

SpecModel == InitRegistry /\ [][NextModel]_vars

\* Model.get_response in one thread after the keys were configured once,
\* while another thread runs configure_api_keys once more during one of the
\* backoff sleeps of the call; both configurations pass explicit keys only
NextInFlight ==
    \/ ConfigureCall /\ lk.pc = "idle" /\ cfg'.pc = "explicit"
                     /\ \/ pc = "Idle" /\ seen.op = "none"
                        \/ pc = "Backoff" /\ seen.op = "lookup"
    \/ ConfigureExplicit
    \/ ConfigureClear
    \/ LookupCall /\ cfg.pc = "idle" /\ pc = "Idle" /\ seen.op # "lookup"
    \/ LookupReadKey
    \/ LookupConstruct
    \/ LookupStore
    \/ ModelGetResponse
    \/ AttemptProvider /\ cfg.pc = "idle"
    \/ Sleep /\ cfg.pc = "idle"

SpecInFlight == InitRegistry /\ [][NextInFlight]_vars

\* one thread: a lookup with nothing configured, then configure_api_keys and
\* a lookup of the same variant again, as long as the lookup raises
NextRecover ==
    \/ ConfigureCall /\ lk.pc = "idle" /\ seen.op = "lookup_raised"
    \/ ConfigureFetch
    \/ ConfigureExplicit
    \/ ConfigureClear
    \/ LookupCall /\ cfg.pc = "idle"
                  /\ \/ seen.op = "none"
                     \/ /\ seen.op \in {"configure", "configure_raised"}
                        /\ lk'.variant = seen.variant
    \/ LookupReadKey
    \/ LookupConstruct
    \/ LookupStore

SpecRecover == InitRegistry /\ [][NextRecover]_vars

\* content flattening on its own
NextFlatten == FlattenContent /\ UNCHANGED <<callVars, regVars>>

InitFlattening == InitFlatten /\ InitCall /\ RegistryInit

SpecFlatten == InitFlattening /\ [][NextFlatten]_vars

\* the hooks of the six provider classes, entered directly
NextHooks == CallHook

SpecHooks == Init /\ [][NextHooks]_vars

\* providers constructed directly
NextConstruct == ConstructProvider

SpecConstruct == InitRegistry /\ [][NextConstruct]_vars

\* configuration calls followed by one validate_provider_keys call
NextValidate ==
    \/ ConfigureCall /\ validation = NoValidation
    \/ ConfigureFetch
    \/ ConfigureExplicit
    \/ ConfigureClear
    \/ ValidateProviderKeys

SpecValidate == InitRegistry /\ [][NextValidate]_vars

\* the catalog as the source lists it, model_registry.py:178-407
MODELS_Duplicated == <<
    [id |-> "gpt-4.1-mini", provider_cls |-> "openai", reasoning_model |-> FALSE],
    [id |-> "gpt-5-2025-08-07", provider_cls |-> "openai", reasoning_model |-> TRUE],
    [id |-> "gpt-5-mini-2025-08-07", provider_cls |-> "openai", reasoning_model |-> TRUE],
    [id |-> "gpt-5-nano-2025-08-07", provider_cls |-> "openai", reasoning_model |-> TRUE],
    [id |-> "gpt-5.1-2025-11-13", provider_cls |-> "openai", reasoning_model |-> TRUE],
    [id |-> "o3-2025-04-16", provider_cls |-> "openai", reasoning_model |-> TRUE],
    [id |-> "gpt-4.1-2025-04-14", provider_cls |-> "openai", reasoning_model |-> FALSE],
    [id |-> "DeepSeek-V3.1", provider_cls |-> "together", reasoning_model |-> FALSE],
    [id |-> "Qwen3-235B-A22B-fp8-tput", provider_cls |-> "together", reasoning_model |-> FALSE],
    [id |-> "Qwen3-235B-A22B-Thinking-2507", provider_cls |-> "together", reasoning_model |-> FALSE],
    [id |-> "Kimi-K2-Instruct", provider_cls |-> "together", reasoning_model |-> FALSE],
    [id |-> "Kimi-K2-Instruct-0905", provider_cls |-> "together", reasoning_model |-> FALSE],
    [id |-> "Kimi-K2-Thinking", provider_cls |-> "together", reasoning_model |-> FALSE],
    [id |-> "GLM-4.5-Air-FP8", provider_cls |-> "together", reasoning_model |-> FALSE],
    [id |-> "GLM-4.6", provider_cls |-> "together", reasoning_model |-> FALSE],
    [id |-> "claude-sonnet-4-5-20250929", provider_cls |-> "anthropic", reasoning_model |-> FALSE],
    [id |-> "claude-haiku-4-5-20251001", provider_cls |-> "anthropic", reasoning_model |-> FALSE],
    [id |-> "claude-opus-4-1-20250805", provider_cls |-> "anthropic", reasoning_model |-> FALSE],
    [id |-> "claude-sonnet-4-20250514", provider_cls |-> "anthropic", reasoning_model |-> FALSE],
    [id |-> "claude-3-7-sonnet-20250219", provider_cls |-> "anthropic", reasoning_model |-> FALSE],
    [id |-> "grok-4-fast-reasoning", provider_cls |-> "xai", reasoning_model |-> FALSE],
    [id |-> "grok-4-fast-non-reasoning", provider_cls |-> "xai", reasoning_model |-> FALSE],
    [id |-> "grok-4-0709", provider_cls |-> "xai", reasoning_model |-> FALSE],
    [id |-> "grok-4-1-fast-reasoning", provider_cls |-> "xai", reasoning_model |-> TRUE],
    [id |-> "grok-4-1-fast-non-reasoning", provider_cls |-> "xai", reasoning_model |-> FALSE],
    [id |-> "gemini-2.5-pro", provider_cls |-> "google", reasoning_model |-> FALSE],
    [id |-> "gemini-2.5-flash", provider_cls |-> "google", reasoning_model |-> FALSE],
    [id |-> "gemini-3-pro-preview", provider_cls |-> "google", reasoning_model |-> FALSE],
    [id |-> "mistral-large-2411", provider_cls |-> "mistral", reasoning_model |-> FALSE],
    [id |-> "magistral-medium-2506", provider_cls |-> "mistral", reasoning_model |-> FALSE],
    [id |-> "gpt-4.1-mini", provider_cls |-> "together", reasoning_model |-> FALSE]
    >>

MODELS == <<
    [id |-> "gpt-4.1-mini", provider_cls |-> "openai", reasoning_model |-> FALSE],
    [id |-> "gpt-5-2025-08-07", provider_cls |-> "openai", reasoning_model |-> TRUE],
    [id |-> "gpt-5-mini-2025-08-07", provider_cls |-> "openai", reasoning_model |-> TRUE],
    [id |-> "gpt-5-nano-2025-08-07", provider_cls |-> "openai", reasoning_model |-> TRUE],
    [id |-> "gpt-5.1-2025-11-13", provider_cls |-> "openai", reasoning_model |-> TRUE],
    [id |-> "o3-2025-04-16", provider_cls |-> "openai", reasoning_model |-> TRUE],
    [id |-> "gpt-4.1-2025-04-14", provider_cls |-> "openai", reasoning_model |-> FALSE],
    [id |-> "DeepSeek-V3.1", provider_cls |-> "together", reasoning_model |-> FALSE],
    [id |-> "Qwen3-235B-A22B-fp8-tput", provider_cls |-> "together", reasoning_model |-> FALSE],
    [id |-> "Qwen3-235B-A22B-Thinking-2507", provider_cls |-> "together", reasoning_model |-> FALSE],
    [id |-> "Kimi-K2-Instruct", provider_cls |-> "together", reasoning_model |-> FALSE],
    [id |-> "Kimi-K2-Instruct-0905", provider_cls |-> "together", reasoning_model |-> FALSE],
    [id |-> "Kimi-K2-Thinking", provider_cls |-> "together", reasoning_model |-> FALSE],
    [id |-> "GLM-4.5-Air-FP8", provider_cls |-> "together", reasoning_model |-> FALSE],
    [id |-> "GLM-4.6", provider_cls |-> "together", reasoning_model |-> FALSE],
    [id |-> "claude-sonnet-4-5-20250929", provider_cls |-> "anthropic", reasoning_model |-> FALSE],
    [id |-> "claude-haiku-4-5-20251001", provider_cls |-> "anthropic", reasoning_model |-> FALSE],
    [id |-> "claude-opus-4-1-20250805", provider_cls |-> "anthropic", reasoning_model |-> FALSE],
    [id |-> "claude-sonnet-4-20250514", provider_cls |-> "anthropic", reasoning_model |-> FALSE],
    [id |-> "claude-3-7-sonnet-20250219", provider_cls |-> "anthropic", reasoning_model |-> FALSE],
    [id |-> "grok-4-fast-reasoning", provider_cls |-> "xai", reasoning_model |-> FALSE],
    [id |-> "grok-4-fast-non-reasoning", provider_cls |-> "xai", reasoning_model |-> FALSE],
    [id |-> "grok-4-0709", provider_cls |-> "xai", reasoning_model |-> FALSE],
    [id |-> "grok-4-1-fast-reasoning", provider_cls |-> "xai", reasoning_model |-> TRUE],
    [id |-> "grok-4-1-fast-non-reasoning", provider_cls |-> "xai", reasoning_model |-> FALSE],
    [id |-> "gemini-2.5-pro", provider_cls |-> "google", reasoning_model |-> FALSE],
    [id |-> "gemini-2.5-flash", provider_cls |-> "google", reasoning_model |-> FALSE],
    [id |-> "gemini-3-pro-preview", provider_cls |-> "google", reasoning_model |-> FALSE],
    [id |-> "mistral-large-2411", provider_cls |-> "mistral", reasoning_model |-> FALSE],
    [id |-> "magistral-medium-2506", provider_cls |-> "mistral", reasoning_model |-> FALSE]
    >>

ModelIds == {MODELS[i].id : i \in 1..Len(MODELS)}

\* next((model for model in MODELS if model.id == id), None): the position of
\* the first record with this id, 0 for None
find_model(id) ==
    LET hits == {i \in 1..Len(MODELS) : MODELS[i].id = id} IN
    [id |-> id, pos |-> IF hits = {} THEN 0 ELSE Min(hits)]

\* a model is looked up in the catalog by its id
MaxFinds == 2

FindModel ==
    /\ validation.op \in {"none", "find"}
    /\ Len(validation.models) < MaxFinds
    /\ \E id \in ModelIds \cup {"not-in-catalog"} :
          validation' = [validation EXCEPT !.op = "find",
                                           !.models = Append(@, find_model(id))]
    /\ UNCHANGED <<keys, cache, next_id, cfg, lk, seen, built, callVars, exVars>>

\* lookups in the catalog
NextCatalog == FindModel

SpecCatalog == InitRegistry /\ [][NextCatalog]_vars

---------------------------------------------------------------------------
(* Claims about the retry engine and the provider hooks, checked under Spec *)

LastOutcome == history[Len(history)].outcome

\* the failure is neither Permanent nor marked as repetitive output
IsTransient(outcome) ==
    outcome.kind = "raise" /\ ~IsNonRetryableError(outcome) /\ ~HasRepetitiveMarker(outcome)

\* C1: an attempt that raises a Permanent failure (NonRetryableError) ends the
\* call on that attempt: the failure is re-raised, no sleep follows the attempt
\* and the operation is not called again.
C1_PermanentFailsFast ==
    \A n \in 1..Len(history) :
        IsNonRetryableError(history[n].outcome) =>
            /\ n = Len(history)
            /\ attempts = n
            /\ pc = "Failed"
            /\ result = history[n].outcome
            /\ Len(sleeps) = n - 1

C1_Witness ==
    /\ pc = "Failed"
    /\ Len(history) = 2
    /\ IsNonRetryableError(history[2].outcome)
    /\ Len(sleeps) = 1

\* C2: after k transient failures followed by a returned value v the operation
\* was called exactly k+1 times, the engine slept exactly k times, each time
\* for the call's wait_time, and the call returned v unchanged.
C2_RetriesThenReturns ==
    \A n \in 1..Len(history) :
        (/\ history[n].outcome.kind = "return"
         /\ \A i \in 1..(n - 1) : IsTransient(history[i].outcome))
        => /\ n = Len(history)
           /\ attempts = n
           /\ pc = "Done"
           /\ result = history[n].outcome
           /\ Len(sleeps) = n - 1
           /\ \A i \in 1..(n - 1) : sleeps[i] = call.wait_time

C2_Witness ==
    /\ pc = "Done"
    /\ Len(history) = 3
    /\ history[3].outcome.kind = "return"
    /\ Len(sleeps) = 2

C7_NonCompletedIsPermanent ==
    \A n \in 1..Len(history) :
        (/\ call.target = "openai"
         /\ history[n].vendor.kind = "response"
         /\ history[n].vendor.status # "completed")
        => /\ n = Len(history)
           /\ pc = "Failed"
           /\ IsNonRetryableError(result)
           /\ Len(sleeps) = n - 1
           /\ requests = n

\* C8: an Anthropic call without max_tokens raises to the caller on the first
\* attempt, with no vendor request, no sleep and no retry.
C8_MissingMaxTokensFailsAtOnce ==
    (call.target = "anthropic" /\ call.max_tokens = Absent /\ attempts >= 1) =>
        /\ pc = "Failed"
        /\ result.kind = "raise"
        /\ attempts = 1
        /\ requests = 0
        /\ sleeps = <<>>

\* the text of a successful vendor answer does not yield a schema-valid object
Unusable(text) ==
    LET data == json_loads(extract_json_from_text(text))
    IN  ~data.ok \/ ~model_validate(data.val)

\* C9: in a structured call, a successful vendor answer whose text cannot be
\* parsed as JSON or fails schema validation ends the call with a Permanent
\* failure handed to the caller, after exactly one vendor request for that
\* attempt, with no sleep and no further request.
C9_UnusableAnswerIsPermanent ==
    \A n \in 1..Len(history) :
        (/\ call.hook = "structured"
         /\ history[n].vendor.kind = "response"
         /\ history[n].vendor.status = "completed"
         /\ Unusable(history[n].vendor.output_text))
        => /\ n = Len(history)
           /\ attempts = n
           /\ pc = "Failed"
           /\ IsNonRetryableError(result)
           /\ result = history[n].outcome
           /\ history[n].requests = 1
           /\ requests = n
           /\ Len(sleeps) = n - 1

C9_Witness ==
    /\ call.hook = "structured"
    /\ pc = "Failed"
    /\ Len(history) = 2
    /\ history[2].vendor.output_text = <<"[", "1", "]">>
    /\ requests = 2

Terminated == pc \in {"Done", "Failed"}

EmptyContent(vendor) ==
    /\ vendor.kind = "message"
    /\ (vendor.content = "null" \/ strip(flatten_content(vendor)) = <<>>)

\* C14: for every provider variant, an attempt whose vendor content is null or
\* empty after flattening and trimming ends the call on that attempt with a
\* Permanent failure: nothing is returned to the caller and nothing is retried.
C14_EmptyContentIsPermanent ==
    \A n \in 1..Len(history) :
        EmptyContent(history[n].vendor)
        => /\ n = Len(history)
           /\ pc = "Failed"
           /\ IsNonRetryableError(result)
           /\ Len(sleeps) = n - 1

---------------------------------------------------------------------------
(* Claim about the text-to-JSON recovery, checked under SpecExtract        *)

\* C10: for a raw text made of leading free text followed by one JSON object
\* or array J, a candidate that parses as JSON parses to J itself.
C10_RecoveryNeverCorrupts ==
    (ex_pc = "parsed" /\ ex_parsed.data.ok) => ex_parsed.data.val = ex_json

\* C11 (SpecTrailing): for a JSON object or array J, whose strings may hold
\* bracket characters, followed by trailing commentary, the candidate is
\* exactly the text of J.
C11_TrailingCommentaryDiscarded ==
    ex_pc # "input" => ex_out = Render(ex_json)

\* the text after the first close tag, trimmed
AfterCloseTag(t) == strip(SliceFrom(t, find(t, CLOSE_TAG, 0) + Len(CLOSE_TAG)))

\* C12 as claimed (SpecReasoning): whenever the close tag occurs, with or
\* without the open tag, the first stage keeps only what follows the close
\* tag; when it does not occur the first stage leaves the text unchanged.
C12_CloseTagAlwaysStrips ==
    ex_pc # "input" =>
        LET t == strip(ex_text) IN
        ex_steps.reasoning = IF contains(t, CLOSE_TAG) THEN AfterCloseTag(t) ELSE t

\* C12 as amended (SpecReasoning): the first stage keeps only what follows
\* the first close tag exactly when the open tag occurs somewhere in the text
\* and the close tag occurs; a close tag without an open tag, like no close
\* tag at all, leaves the text unchanged.
C12_PairedTagsStrip ==
    ex_pc # "input" =>
        LET t == strip(ex_text) IN
        ex_steps.reasoning = IF contains(t, OPEN_TAG) /\ contains(t, CLOSE_TAG)
                             THEN AfterCloseTag(t) ELSE t

\* a close tag without an open tag: nothing is discarded, and the candidate is
\* the object that precedes the tag
C12_Witness ==
    /\ ex_pc = "extracted"
    /\ contains(ex_text, CLOSE_TAG)
    /\ ~contains(ex_text, OPEN_TAG)
    /\ ex_steps.reasoning = ex_text
    /\ ex_json = <<"obj", (<<"a">> :> <<"num", 1>>)>>
    /\ ex_out = <<"{", "}">>

\* C13 (SpecFenced): for a text with fenced code blocks, at the start or after
\* prose, alone or followed by a further block, the candidate is the interior
\* of the first block tagged json, or of the first block when none is tagged.
C13_FirstFencedBlockTaken ==
    ex_pc # "input" => ex_out = Render(ex_json)

---------------------------------------------------------------------------
(* Claims about the registry                                               *)

Quiescent == cfg.pc = "idle" /\ lk.pc = "idle"

\* C15 (SpecRegistry): in configure_api_keys(from_gcp=True), whatever subset
\* of the fetches fails and whatever the secret collaborator raises, the call
\* never raises, and when the fetch loop is over every variant whose fetch
\* succeeded holds the fetched key and every variant whose fetch failed holds
\* what it held before the call.
C15_FetchFailuresSwallowed ==
    /\ seen.cfg # "raised"
    /\ (cfg.pc = "explicit" /\ cfg.i = 1 /\ \A v \in Variants : cfg.fetched[v] # "none") =>
          \A v \in Variants :
              keys[v] = IF cfg.fetched[v] = GcpKey THEN GcpKey ELSE cfg.before[v]

\* the variants the validated models need and that have no key-store entry
MissingVariants ==
    {v \in Variants : keys[v] = None
                      /\ \E i \in 1..Len(validation.models) :
                            validation.models[i].provider_cls = v}
\* how often the raised failure names variant v
TimesNamed(v) ==
    Cardinality({i \in 1..Len(validation.outcome.msg) :
                    validation.outcome.msg[i].provider = v})
\* every entry of the failure names a missing variant with a model that needs it
EntriesJustified ==
    \A i \in 1..Len(validation.outcome.msg) :
        /\ validation.outcome.msg[i].provider \in MissingVariants
        /\ \E j \in 1..Len(validation.models) :
              /\ validation.models[j].id = validation.outcome.msg[i].model
              /\ validation.models[j].provider_cls = validation.outcome.msg[i].provider

\* C16 as claimed (SpecValidate): validate_provider_keys raises exactly when a
\* needed variant has no key-store entry, and the failure names every distinct
\* missing variant once, with a model id that needs it.
C16_EachMissingVariantOnce ==
    validation.op = "validate" =>
        /\ validation.outcome.kind = "raise" <=> MissingVariants # {}
        /\ validation.outcome.kind = "raise" =>
              /\ validation.outcome.cls = "ValueError"
              /\ EntriesJustified
              /\ \A v \in MissingVariants : TimesNamed(v) = 1

\* C16 as amended (SpecValidate): validate_provider_keys raises exactly when a
\* needed variant has no key-store entry; the single failure has one entry per
\* model of the list whose variant is missing, so a variant needed by k listed
\* models is named k times, each time with the id of one of those models.
C16_EachMissingModelNamed ==
    validation.op = "validate" =>
        /\ validation.outcome.kind = "raise" <=> MissingVariants # {}
        /\ validation.outcome.kind = "raise" =>
              /\ validation.outcome.cls = "ValueError"
              /\ EntriesJustified
              /\ \A v \in MissingVariants :
                    TimesNamed(v) =
                        Cardinality({j \in 1..Len(validation.models) :
                                        validation.models[j].provider_cls = v})
        /\ validation.outcome.kind # "raise" => validation.outcome = Returned(None)

\* two listed models share a missing variant while the other variant is set
C16_Witness ==
    /\ validation.op = "validate"
    /\ validation.outcome.kind = "raise"
    /\ Len(validation.models) = 3
    /\ validation.models[1].provider_cls = VariantOrder[1]
    /\ validation.models[2].provider_cls = VariantOrder[2]
    /\ validation.models[3].provider_cls = VariantOrder[1]
    /\ validation.models[1].id # validation.models[3].id
    /\ keys[VariantOrder[1]] = None
    /\ keys[VariantOrder[2]] # None
    /\ TimesNamed(VariantOrder[1]) = 2

C18_NoKeyNoCall ==
    /\ (seen.op = "lookup_raised" /\ cfg.pc = "idle") =>
          /\ keys[seen.variant] = None \/ IsAbstract(seen.variant)
          /\ pc = "Idle"
          /\ attempts = 0
          /\ requests = 0
          /\ sleeps = <<>>
          /\ result = NoResult
    /\ (seen.op = "lookup" /\ cfg.pc = "idle") => keys[seen.variant] # None
    /\ pc # "Idle" =>
          /\ keys[call.target] # None
          /\ seen.inst.api_key = keys[call.target]

\* configured for one variant only, then asked for a model of the other
C18_Witness ==
    /\ seen.op = "lookup_raised"
    /\ seen.cfg = "returned"
    /\ cfg.pc = "idle"
    /\ seen.variant = VariantOrder[2]
    /\ keys[VariantOrder[2]] = None
    /\ keys[VariantOrder[1]] = "A"
    /\ pc = "Idle"
    /\ requests = 0

\* C4 (SpecRegistry): when configure_api_keys has returned the cache is empty
\* for every variant, and every lookup after it returns an instance that was
\* constructed after the call, from the key now in the store.
C4_ConfigureEmptiesCache ==
    /\ seen.op = "configure" => \A v \in Variants : cache[v] = NoInstance
    /\ (seen.op = "lookup" /\ seen.cfg = "returned" /\ cfg.pc = "idle") =>
          /\ seen.inst.api_key = keys[seen.variant]
          /\ seen.inst.id > seen.stamp

C4_Witness ==
    /\ seen.op = "lookup"
    /\ seen.cfg = "returned"
    /\ cfg.pc = "idle"
    /\ seen.variant = VariantOrder[2]
    /\ seen.stamp = 2
    /\ seen.inst.id = 3

\* C5 (SpecRace): once configure_api_keys has returned and the concurrent
\* lookup has finished, the cache holds no instance built from a superseded key.
C5_NoStaleInstance ==
    (Quiescent /\ seen.cfg = "returned") =>
        \A v \in Variants : cache[v] # NoInstance => cache[v].api_key = keys[v]

\* C6 as claimed (SpecRegistry): once an explicit key was passed for a variant
\* it stays the effective key, whatever a later from_gcp call fetches.
C6_ExplicitWinsAcrossCalls ==
    (Quiescent /\ seen.cfg = "returned") =>
        \A p \in Variants : seen.explicit[p] # None => keys[p] = seen.explicit[p]

\* C6 as amended (SpecRegistry): the effective key of a variant is the one
\* supplied last, explicit argument or fetched secret; explicit beats fetched
\* only inside one call, so the result depends on the order of the calls.
C6_LastSupplyWins ==
    cfg.pc = "idle" => \A p \in Variants : keys[p] = seen.latest[p]

C6_Witness ==
    /\ Quiescent
    /\ seen.cfg = "returned"
    /\ seen.explicit[VariantOrder[1]] = "A"
    /\ keys[VariantOrder[1]] = GcpKey
    /\ seen.explicit[VariantOrder[2]] = "B"
    /\ keys[VariantOrder[2]] = "B"

---------------------------------------------------------------------------
(* Claims about the request payloads and the call options                  *)

\* C21 (SpecHooks): whatever the variant and the hook, the payload of a vendor
\* request carries temperature exactly when the caller supplied one, with the
\* caller's value (an OpenAI reasoning model aside, whose payload carries none),
\* and the maximum-token parameter exactly when the caller supplied max_tokens,
\* with the caller's value: no default is injected and nothing supplied is lost.
C21_PayloadOnlyWhatCallerSupplied ==
    \A n \in 1..Len(history) :
        history[n].payload.sent =>
            /\ history[n].payload.max_tokens = call.max_tokens
            /\ history[n].payload.temperature =
                  (IF call.target = "openai" /\ call.reasoning_model
                   THEN Absent ELSE call.temperature)

\* C22 (Spec): every request of an OpenAI call, plain or structured, carries no
\* temperature when the model's reasoning flag is set, whatever the caller
\* supplied, and carries a temperature when the flag is not set.
C22_ReasoningOmitsTemperature ==
    \A n \in 1..Len(history) :
        (call.target = "openai" /\ history[n].payload.sent) =>
            /\ call.reasoning_model => history[n].payload.temperature = Absent
            /\ ~call.reasoning_model => history[n].payload.temperature # Absent

\* a structured call on a reasoning model with a temperature supplied, two
\* requests sent
C22_Witness ==
    /\ call.target = "openai"
    /\ call.hook = "structured"
    /\ call.reasoning_model
    /\ call.temperature # Absent
    /\ Len(history) = 2
    /\ \A n \in 1..2 : history[n].payload.sent /\ history[n].payload.temperature = Absent

\* the call came through get_response or get_structured_response of a provider
ThroughProvider == call.target \in ConcreteProviders

\* the wait_time option is consumed by the interface, and every request of the
\* call is built from the same remaining options
OptionsKept ==
    /\ call.options_wait_time = Absent
    /\ \A n, m \in 1..Len(history) :
          (history[n].payload.sent /\ history[m].payload.sent) =>
              history[n].payload = history[m].payload

\* C23 as claimed (Spec): every backoff sleep of get_response and
\* get_structured_response lasts the caller's wait_time when one was supplied
\* and 30 seconds otherwise; wait_time does not reach the hook, and every
\* attempt uses the same remaining options.
C23_SleepsWaitTimeOrThirty ==
    ThroughProvider =>
        /\ \A i \in 1..Len(sleeps) :
              sleeps[i] = (IF call.wait_time_option # Absent
                           THEN call.wait_time_option[1]
                           ELSE DEFAULT_WAIT_TIME_SECONDS)
        /\ OptionsKept

\* C23 as amended (Spec): every backoff sleep lasts the caller's wait_time when
\* one was supplied and otherwise the instance's default wait, which is 30
\* seconds unless the instance was constructed with another, non-zero
\* default_wait_time; wait_time does not reach the hook, and every attempt
\* uses the same remaining options.
C23_SleepsWaitTimeOrInstanceDefault ==
    ThroughProvider =>
        /\ \A i \in 1..Len(sleeps) :
              sleeps[i] = (IF call.wait_time_option # Absent
                           THEN call.wait_time_option[1]
                           ELSE call.default_wait_time)
        /\ call.default_wait_time \in
              {BaseLLMProvider_init(d) : d \in DefaultWaitTimes}
        /\ call.default_wait_time # 0
        /\ OptionsKept

\* two sleeps of an instance built with default_wait_time=5, no wait_time passed
C23_Witness ==
    /\ ThroughProvider
    /\ call.wait_time_option = Absent
    /\ call.default_wait_time = 5
    /\ sleeps = <<5, 5>>
    /\ Len(history) = 3
    /\ history[3].payload.sent

---------------------------------------------------------------------------
(* Claims about content flattening, checked under SpecFlatten              *)

\* the text a flattening gave, or "raised"
FlatOf(content) == _flatten_content(content)

\* what joining the flattened items of a sequence in order gives: a raise when
\* an item raises, else the concatenation of the items' texts
RECURSIVE InOrder(_)
InOrder(items) ==
    IF items = <<>> THEN Flat(<<>>)
    ELSE IF ~FlatOf(Head(items)).ok \/ ~InOrder(Tail(items)).ok THEN FlatRaised
    ELSE Flat(FlatOf(Head(items)).text \o InOrder(Tail(items)).text)

\* every content value met while flattening c, c included
RECURSIVE Within(_)
Within(c) ==
    {c} \cup (IF c[1] = "list"
              THEN UNION {Within(c[2][i]) : i \in 1..Len(c[2])}
              ELSE IF c[1] = "dict"
              THEN UNION {Within(c[2][k]) : k \in DOMAIN c[2]}
              ELSE {})

\* a string flattens to itself, bytes to their UTF-8 decoding, a sequence to
\* the in-order concatenation of its flattened items
FlattensLeavesAndSequences(c) ==
    /\ c[1] = "str" => FlatOf(c) = Flat(c[2])
    /\ c[1] = "bytes" => FlatOf(c) = decode_utf8(c[2])
    /\ c[1] = "list" => FlatOf(c) = InOrder(c[2])

\* C24 as claimed (SpecFlatten): at every level of a content value, a string
\* flattens to itself, bytes to their UTF-8 decoding, a record with a "text"
\* field to the flattening of that field, and a sequence to the in-order
\* concatenation of the flattening of its items.
C24_FlattenIsConcatenation ==
    flat.pc = "flattened" =>
        /\ flat.out = FlatOf(flat.content)
        /\ \A c \in Within(flat.content) :
              /\ FlattensLeavesAndSequences(c)
              /\ (c[1] = "dict" /\ "text" \in DOMAIN c[2]) =>
                    FlatOf(c) = FlatOf(c[2]["text"])

\* C24 as amended (SpecFlatten): the same, except that a record flattens to
\* its "text" field only when that field is not null.
C24_FlattenIsConcatenationOfNonNullText ==
    flat.pc = "flattened" =>
        /\ flat.out = FlatOf(flat.content)
        /\ \A c \in Within(flat.content) :
              /\ FlattensLeavesAndSequences(c)
              /\ (c[1] = "dict" /\ "text" \in DOMAIN c[2] /\ c[2]["text"] # Null) =>
                    FlatOf(c) = FlatOf(c[2]["text"])

\* [["Hi, "], "w"] has been flattened to "Hi, w"
C24_Witness ==
    /\ flat.pc = "flattened"
    /\ flat.content = List(<<List(<<Str(<<"H", "i", ",", " ">>)>>), Str(<<"w">>)>>)
    /\ flat.out = Flat(<<"H", "i", ",", " ", "w">>)

---------------------------------------------------------------------------
(* Claims about configure_api_keys, checked under SpecRegistry             *)

\* the call that is about to return was made with from_gcp=True and every
\* fetch of its loop ended
FetchedAll == \A v \in Variants : cfg.fetched[v] # "none"

\* C25 (SpecRegistry): when a configure_api_keys(from_gcp=True, ...) call
\* returns, every variant it was passed an explicit key for holds that key,
\* whatever the secret store returned for it, and every other variant whose
\* secret was fetched holds the fetched key.
C25_ExplicitOverridesFetched ==
    [][(cfg.pc = "clear" /\ cfg'.pc = "idle" /\ FetchedAll) =>
          \A v \in Variants :
              /\ cfg.passed[v] # None => keys'[v] = cfg.passed[v]
              /\ (cfg.passed[v] = None /\ cfg.fetched[v] = GcpKey) => keys'[v] = GcpKey]_vars

\* the call fetched a secret for both variants and was passed an explicit key
\* for the first only
C25_Witness ==
    /\ cfg.pc = "clear"
    /\ cfg.fetched[VariantOrder[1]] = GcpKey
    /\ cfg.fetched[VariantOrder[2]] = GcpKey
    /\ cfg.passed[VariantOrder[1]] = "A"
    /\ cfg.passed[VariantOrder[2]] = None
    /\ keys[VariantOrder[1]] = "A"
    /\ keys[VariantOrder[2]] = GcpKey

---------------------------------------------------------------------------
(* Claims about the provider classes, checked under SpecConstruct          *)

\* C26 (SpecConstruct): each of the six provider classes defines both hooks,
\* so each can be constructed once it is given a key, and a model bound to it
\* then offers both get_response and get_structured_response.
C26_BothHooksEverywhere ==
    \A i \in 1..Len(built) :
        /\ HooksImplemented(built[i].provider_cls) = {"plain", "structured"}
        /\ built[i].api_key # None =>
              /\ built[i].made.ok
              /\ {"get_response", "get_structured_response"} \subseteq ModelMethods


---------------------------------------------------------------------------
(* Claims about the model catalog, checked under SpecCatalog               *)

\* C27: model ids are unique: no two records of the MODELS catalog have the
\* same id, so a lookup by id finds the only record that carries it
C27_ModelIdsUnique ==
    \A n \in 1..Len(validation.models) :
        LET f == validation.models[n] IN
        validation.op = "find" /\ f.pos # 0 =>
            /\ MODELS[f.pos].id = f.id
            /\ \A k \in 1..Len(MODELS) : MODELS[k].id = f.id => k = f.pos
            /\ \A i, j \in 1..Len(MODELS) : MODELS[i].id = MODELS[j].id => i = j

\* the last model of the catalog was looked up and found at its own position
C27_Witness ==
    /\ validation.op = "find"
    /\ \E n \in 1..Len(validation.models) :
          /\ validation.models[n].id = "magistral-medium-2506"
          /\ validation.models[n].pos = Len(MODELS)
          /\ Len(MODELS) = 30


---------------------------------------------------------------------------
(* Claims about non-completed OpenAI responses, checked under Spec         *)

NonCompleted(vendor) == vendor.kind = "response" /\ vendor.status # "completed"

InMessage(outcome, word) == \E i \in 1..Len(outcome.msg) : outcome.msg[i] = word

\* the failure the hook raised for a non-completed response names the status
\* and, when there is one, the incomplete-reason detail
CarriesStatus(h) ==
    /\ h.outcome.kind = "raise"
    /\ InMessage(h.outcome, h.vendor.status)
    /\ h.vendor.incomplete_details # None
           => InMessage(h.outcome, h.vendor.incomplete_details)

\* what was handed back is the text of this completed response, or the object
\* parsed from it
TakenFromCompleted(h) ==
    /\ h.vendor.kind = "response"
    /\ h.vendor.status = "completed"
    /\ result = h.outcome
    /\ result.kind = "return"
    /\ LET output_text == strip(h.vendor.output_text) IN
       IF call.hook = "plain" THEN result.val = output_text
       ELSE result = parse_and_validate_json(extract_json_from_text(output_text),
                                             output_text)

---------------------------------------------------------------------------
(* Claims about the exits of configure_api_keys, checked under SpecRegistry *)

\* the step on which a configure_api_keys call ends: ConfigureClear returns,
\* ConfigureFetch lets an exception of get_secret through
ConfigureExits == cfg.pc # "idle" /\ cfg'.pc = "idle"

\* C29: configure_api_keys keeps store and cache consistent on every exit:
\* when the call returns, and when it raises after it has changed at least one
\* key-store entry, the provider-instance cache is empty as the call exits.
C29_EveryExitInvalidatesCache ==
    [][ConfigureExits =>
           /\ cfg.pc = "clear" => cache' = cache_clear(cache)
           /\ (cfg.pc = "fetch" /\ keys' # cfg.before) => cache' = cache_clear(cache)
       ]_vars


---------------------------------------------------------------------------
(* Claims about a call in progress while the registry is reconfigured,     *)
(* checked under SpecInFlight                                              *)

\* C30: a call in progress is bound to one provider instance: the instance is
\* resolved once, before the first attempt, and every attempt of the call is
\* made on that instance with its key, whatever configure_api_keys has done
\* to the key store and to the cache in the meantime.
C30_CallBoundToOneInstance ==
    pc # "Idle" =>
        /\ call.inst # NoInstance
        /\ call.inst.cls = call.target
        /\ call.inst.id <= next_id
        /\ \A n \in 1..Len(history) :
              /\ history[n].inst = call.inst
              /\ history[n].inst.api_key = call.inst.api_key

\* the key was replaced and the cache cleared during the backoff sleep after
\* the first attempt; the second attempt still went to the first instance
C30_Witness ==
    /\ pc = "Done"
    /\ Len(history) = 2
    /\ Len(sleeps) = 1
    /\ cfg.pc = "idle"
    /\ seen.cfg = "returned"
    /\ keys[call.target] # call.inst.api_key
    /\ cache[call.target] = NoInstance
    /\ history[2].inst = call.inst
    /\ history[2].inst = history[1].inst


---------------------------------------------------------------------------
(* Claims about what configure_api_keys writes, checked under SpecRegistry  *)

\* the variant the loop of configure_api_keys is at
CfgVariant == VariantOrder[cfg.i]

\* no step changes the key of any variant but this one
OnlyKeyOf(v) == \A u \in Variants : u # v => keys'[u] = keys[u]

\* C31: configure_api_keys never removes a key-store entry and changes only
\* the entries it is given: a configured variant stays configured; a pass of
\* the explicit loop changes no key but that of its own variant, and not even
\* that one when no argument was passed for it; a pass of the fetch loop
\* whose fetch failed changes no key at all, and one whose fetch succeeded
\* changes only the key of its own variant.
C31_OnlyGivenEntriesChange ==
    [][/\ \A v \in Variants : keys[v] # None => keys'[v] # None
       /\ cfg.pc \in {"idle", "clear"} => keys' = keys
       /\ cfg.pc = "explicit" =>
             /\ OnlyKeyOf(CfgVariant)
             /\ cfg'.passed[CfgVariant] = None => keys' = keys
             /\ cfg'.passed[CfgVariant] # None
                    => keys'[CfgVariant] = cfg'.passed[CfgVariant]
       /\ cfg.pc = "fetch" =>
             /\ OnlyKeyOf(CfgVariant)
             /\ keys'[CfgVariant] # keys[CfgVariant] =>
                    /\ cfg'.pc # "idle"
                    /\ cfg'.fetched[CfgVariant] = GcpKey
                    /\ keys'[CfgVariant] = GcpKey
             /\ (cfg'.pc = "idle" \/ cfg'.fetched[CfgVariant] # GcpKey) => keys' = keys
      ]_vars

\* the fetch loop has ended; the fetch failed for a variant that had a key,
\* and that key is still in the store
C31_Witness ==
    /\ cfg.pc = "explicit"
    /\ cfg.i = 1
    /\ \E v \in Variants :
          /\ cfg.fetched[v] = "RuntimeError"
          /\ cfg.before[v] \in ExplicitKeys
          /\ keys[v] = cfg.before[v]


---------------------------------------------------------------------------
(* Claims about a lookup that raised, checked under SpecRecover            *)

\* C32: a failed provider construction is not cached: the lookup that raised
\* leaves no cache entry for its variant; once configure_api_keys has supplied
\* a key for that variant the next lookup of it does not raise, and it returns
\* an instance newly constructed from that key, which is then the cached one.
C32_FailureNotCached ==
    /\ (seen.op = "lookup_raised" /\ lk.pc = "idle") =>
          /\ cache[seen.variant] = NoInstance
          /\ keys[seen.variant] = None \/ IsAbstract(seen.variant) \/ cfg.pc # "idle"
    /\ seen.op = "lookup" =>
          /\ seen.inst # NoInstance
          /\ seen.inst.cls = seen.variant
          /\ seen.inst.api_key = keys[seen.variant]
          /\ seen.inst.api_key # None
          /\ seen.inst.id = next_id
          /\ cache[seen.variant] = seen.inst

\* the lookup raised with nothing configured, a configure_api_keys call then
\* passed a key for the variant, and the lookup after it returned an instance
C32_Witness ==
    /\ seen.op = "lookup"
    /\ seen.cfg = "returned"
    /\ seen.explicit[seen.variant] = "A"
    /\ seen.inst.api_key = "A"
    /\ seen.inst.id = 1
    /\ cache[seen.variant] = seen.inst


---------------------------------------------------------------------------
(* Claims about the cache between configurations, checked under SpecRegistry *)

\* C33: the instance cache is keyed by provider variant only: a cached
\* instance stays the entry of its variant until configure_api_keys clears
\* the cache; an instance is constructed only for a variant that has no
\* entry, so once per variant between two configure_api_keys calls; a lookup
\* that returns gives the entry of its variant, the one already there when
\* there was one; and the entries of different variants are different
\* instances.
C33_CacheKeyedByVariant ==
    [][/\ \A v \in Variants :
             cache[v] # NoInstance =>
                 \/ cache'[v] = cache[v]
                 \/ cfg.pc = "clear" /\ cache' = cache_clear(cache)
       /\ next_id' # next_id =>
             /\ cache[lk.variant] = NoInstance
             /\ next_id' = next_id + 1
             /\ lk'.inst.id = next_id'
       /\ (cfg.pc = "idle" /\ seen' # seen /\ seen'.op = "lookup") =>
             /\ seen'.inst # NoInstance
             /\ seen'.inst.cls = seen'.variant
             /\ seen'.inst = cache'[seen'.variant]
             /\ cache[seen'.variant] # NoInstance =>
                    /\ seen'.inst = cache[seen'.variant]
                    /\ next_id' = next_id
       /\ \A u, v \in Variants :
             (u # v /\ cache'[u] # NoInstance /\ cache'[v] # NoInstance) =>
                 /\ cache'[u].id # cache'[v].id
                 /\ cache'[u].cls # cache'[v].cls
      ]_vars

\* since the one configuration both variants were looked up, and the last
\* lookup returned the instance constructed first
C33_Witness ==
    /\ seen.op = "lookup"
    /\ seen.cfg = "returned"
    /\ seen.stamp = 0
    /\ next_id = 2
    /\ cfg.pc = "idle"
    /\ lk.pc = "idle"
    /\ \A v \in Variants : cache[v] # NoInstance
    /\ seen.inst.id = 1
    /\ seen.inst = cache[seen.variant]


---------------------------------------------------------------------------
(* Claims about the order of the except clauses, checked under Spec        *)

\* C34: the Permanent classification is checked before the repetitive-output
\* marker: an attempt that raises a NonRetryableError whose message contains
\* the marker ends the call with that failure re-raised; the sentinel is not
\* returned and nothing is slept after the attempt.
C34_PermanentBeforeMarker ==
    \A n \in 1..Len(history) :
        (/\ IsNonRetryableError(history[n].outcome)
         /\ HasRepetitiveMarker(history[n].outcome))
        => /\ n = Len(history)
           /\ pc = "Failed"
           /\ result = history[n].outcome
           /\ result # Returned(SENTINEL)
           /\ Len(sleeps) = n - 1

\* after one backoff cycle the operation raised a Permanent failure whose
\* message has the marker, and the call raised it
C34_Witness ==
    /\ pc = "Failed"
    /\ Len(history) = 2
    /\ IsTransient(history[1].outcome)
    /\ IsNonRetryableError(history[2].outcome)
    /\ HasRepetitiveMarker(history[2].outcome)
    /\ result = history[2].outcome
    /\ Len(sleeps) = 1

====
